---- MODULE Spec2Model ----
(***************************************************************************)
(* A model of the municourt page parser (package parser): the line         *)
(* grouper, the section-name matcher, the number repairer, the TJ kerning  *)
(* rule and the ParsePage table mapper.                                    *)
(*                                                                         *)
(* A Go string is modelled as a sequence of one-character strings, so that *)
(* trimming, joining, space removal and digit tests are computed and not   *)
(* assumed.  Each component has one record-valued variable holding the     *)
(* locals of the running call; a specification runs one component and      *)
(* leaves the other variables idle.                                        *)
(***************************************************************************)
EXTENDS Integers, Sequences, FiniteSets, TLC

VARIABLES gl, ms, cs, mc, tj, pp, tk, ex, pf, cc, cm, dh, fd

vars == <<gl, ms, cs, mc, tj, pp, tk, ex, pf, cc, cm, dh, fd>>

Idle == [pc |-> "idle"]

(***************************************************************************)
(* Bounds of the model.                                                    *)
(***************************************************************************)
MaxItems == 6
MaxPieces == 3
MaxLeftLen == 5
MaxRightLen == 4
MaxLineLen == 4
MaxTarget == 3
MaxChildren == 4
MaxNoise == 2
MaxStream == 3
MaxElements == 3
MaxOps == 3
MaxPages == 3
MaxBlocks == 2
MaxRangeSteps == 4
MaxGlyphs == 3
MaxOccurrences == 3

(***************************************************************************)
(* Strings.                                                                *)
(***************************************************************************)
Digits == {"0", "1", "2", "3", "4", "5", "6", "7", "8", "9"}

\* unicode.IsSpace on the characters the model uses (strings.TrimSpace).
WhiteSpace == {" ", "\t", "\n", "\r", "\f"}

RECURSIVE TrimLeft(_)
TrimLeft(s) ==
    IF s # <<>> /\ Head(s) \in WhiteSpace THEN TrimLeft(Tail(s)) ELSE s

RECURSIVE TrimRight(_)
TrimRight(s) ==
    IF s # <<>> /\ s[Len(s)] \in WhiteSpace
    THEN TrimRight(SubSeq(s, 1, Len(s) - 1))
    ELSE s

\* strings.TrimSpace
TrimSpace(s) == TrimRight(TrimLeft(s))

\* The concatenation of a sequence of sequences.
RECURSIVE Flatten(_)
Flatten(ss) == IF ss = <<>> THEN <<>> ELSE Head(ss) \o Flatten(Tail(ss))

\* strings.Join(line, sep)
RECURSIVE Join(_, _)
Join(line, sep) ==
    IF line = <<>> THEN <<>>
    ELSE IF Len(line) = 1 THEN line[1]
    ELSE line[1] \o sep \o Join(Tail(line), sep)

\* strings.ReplaceAll(s, c, "") for a one-character c
RemoveAll(s, c) == SelectSeq(s, LAMBDA x : x # c)

\* All sequences over S of length 0..n.
SeqsUpTo(S, n) == UNION {[1..k -> S] : k \in 0..n}

(***************************************************************************)
(* groupIntoLines                                                          *)
(***************************************************************************)
\* The body of the loop over items: a mutant that ends the line at every
\* empty fragment, also when the current line is empty.
GroupStepFlushAlways(st, item) ==
    LET s == TrimSpace(item) IN
    IF s = <<>>
    THEN [lines |-> Append(st.lines, st.current), current |-> <<>>]
    ELSE [lines |-> st.lines, current |-> Append(st.current, s)]

\* The body of the loop over items (one iteration).
GroupStep(st, item) ==
    LET s == TrimSpace(item) IN
    IF s = <<>>
    THEN IF Len(st.current) > 0
         THEN [lines |-> Append(st.lines, st.current), current |-> <<>>]
         ELSE st
    ELSE [lines |-> st.lines, current |-> Append(st.current, s)]

\* The flush after the loop.
GroupFlush(st) ==
    IF Len(st.current) > 0 THEN Append(st.lines, st.current) ELSE st.lines

\* The loop over items[lo..hi], started in state st: the iterations run in
\* index order.  The range is halved, and the state after the first half is
\* computed before the second half starts, only to keep the evaluation
\* shallow.
RECURSIVE GroupLoop(_, _, _, _)
GroupLoop(st, items, lo, hi) ==
    IF lo > hi THEN st
    ELSE IF lo = hi THEN GroupStep(st, items[lo])
    ELSE LET mid == (lo + hi) \div 2
             first == GroupLoop(st, items, lo, mid)
         IN IF Len(first.lines) >= 0
            THEN GroupLoop(first, items, mid + 1, hi)
            ELSE st

\* groupIntoLines(items), as the callers use it.
groupIntoLines(items) ==
    GroupFlush(GroupLoop([lines |-> <<>>, current |-> <<>>], items, 1, Len(items)))

\* The fragments the line grouper is run on: the sentinel, a blank fragment,
\* plain fragments and fragments with surrounding or inner whitespace.
GlFragments ==
    { <<>>, <<" ">>, <<"A">>, <<" ", "B", "\t">>, <<"C", " ", "D">> }

GlInit ==
    \E items \in SeqsUpTo(GlFragments, MaxItems) :
        gl = [pc |-> "loop", items |-> items, i |-> 1,
              lines |-> <<>>, current |-> <<>>]

\* One iteration of the range loop of groupIntoLines.
GlIterate ==
    /\ gl.pc = "loop"
    /\ gl.i <= Len(gl.items)
    /\ LET st == GroupStep([lines |-> gl.lines, current |-> gl.current],
                           gl.items[gl.i])
       IN gl' = [gl EXCEPT !.i = @ + 1, !.lines = st.lines,
                           !.current = st.current]
    /\ UNCHANGED <<ms, cs, mc, tj, pp,
                 tk, ex, pf, cc, cm, dh, fd>>

\* The end of the loop: the last line is flushed and the lines are returned.
GlReturn ==
    /\ gl.pc = "loop"
    /\ gl.i > Len(gl.items)
    /\ gl' = [gl EXCEPT !.pc = "done",
                        !.lines = GroupFlush([lines |-> gl.lines,
                                              current |-> gl.current]),
                        !.current = <<>>]
    /\ UNCHANGED <<ms, cs, mc, tj, pp,
                 tk, ex, pf, cc, cm, dh, fd>>

InitLines ==
    /\ GlInit
    /\ ms = Idle /\ cs = Idle /\ mc = Idle /\ tj = Idle /\ pp = Idle
    /\ tk = Idle /\ ex = Idle /\ pf = Idle /\ cc = Idle /\ cm = Idle /\ dh = Idle /\ fd = Idle

NextLines == GlIterate \/ GlReturn

SpecLines == InitLines /\ [][NextLines]_vars

(***************************************************************************)
(* Claims about groupIntoLines.                                            *)
(***************************************************************************)
GlTrimmed(i) == TrimSpace(gl.items[i])

\* The number of fragments among the first i that survive trimming.
GlRank(i) == Cardinality({k \in 1..i : GlTrimmed(k) # <<>>})

\* The index of the returned line that holds the r-th returned fragment.
GlLineOf(r) ==
    CHOOSE k \in 1..Len(gl.lines) :
        /\ Len(Flatten(SubSeq(gl.lines, 1, k - 1))) < r
        /\ r <= Len(Flatten(SubSeq(gl.lines, 1, k)))

\* Only sentinels (empty fragments) lie strictly between items i and j.
GlOnlySentinelsBetween(i, j) ==
    \A k \in (i + 1)..(j - 1) : gl.items[k] = <<>>

\* C1: groupIntoLines returns no empty line, every returned fragment is
\* non-empty and has no leading or trailing whitespace, the lines concatenated
\* are the trimmed non-empty input fragments in their order, two fragments
\* with nothing between them share a line, and two fragments separated by a
\* run of one or more sentinels lie in consecutive lines.
C1_GroupIntoLines ==
    gl.pc = "done" =>
        /\ \A k \in 1..Len(gl.lines) : gl.lines[k] # <<>>
        /\ \A k \in 1..Len(gl.lines) : \A f \in 1..Len(gl.lines[k]) :
              LET s == gl.lines[k][f] IN
              /\ s # <<>>
              /\ s[1] \notin WhiteSpace
              /\ s[Len(s)] \notin WhiteSpace
        /\ Flatten(gl.lines)
             = SelectSeq([i \in 1..Len(gl.items) |-> GlTrimmed(i)],
                         LAMBDA s : s # <<>>)
        /\ \A i \in 1..Len(gl.items) : \A j \in (i + 1)..Len(gl.items) :
              (/\ GlTrimmed(i) # <<>>
               /\ GlTrimmed(j) # <<>>
               /\ GlOnlySentinelsBetween(i, j))
              => GlLineOf(GlRank(j))
                   = GlLineOf(GlRank(i)) + (IF j = i + 1 THEN 0 ELSE 1)

\* A finished call on a sequence with a leading sentinel, a run of two
\* sentinels between two fragments, a fragment that needed trimming and a
\* trailing sentinel.
C1_Witness ==
    /\ gl.pc = "done"
    /\ Len(gl.items) >= 6
    /\ gl.items[1] = <<>>
    /\ gl.items[Len(gl.items)] = <<>>
    /\ \E i \in 2..(Len(gl.items) - 3) :
          /\ GlTrimmed(i) # <<>>
          /\ gl.items[i + 1] = <<>> /\ gl.items[i + 2] = <<>>
          /\ GlTrimmed(i + 3) # <<>>
          /\ gl.items[i + 3] # GlTrimmed(i + 3)
    /\ Len(gl.lines) = 2

(***************************************************************************)
(* matchSectionName                                                        *)
(***************************************************************************)
sFilings ==
    <<"F", "i", "l", "i", "n", "g", "s">>
sResolutions ==
    <<"R", "e", "s", "o", "l", "u", "t", "i", "o", "n", "s">>
sClearance ==
    <<"C", "l", "e", "a", "r", "a", "n", "c", "e">>
sClearancePercent ==
    <<"C", "l", "e", "a", "r", "a", "n", "c", "e", " ", "P", "e", "r", "c", "e", "n", "t">>
sBacklog ==
    <<"B", "a", "c", "k", "l", "o", "g">>
sBacklogPer100 ==
    <<"B", "a", "c", "k", "l", "o", "g", "/", "1", "0", "0", " ", "M", "t", "h", "l", "y", " ", "F", "i", "l", "i", "n", "g", "s">>
sBacklogPercent ==
    <<"B", "a", "c", "k", "l", "o", "g", " ", "P", "e", "r", "c", "e", "n", "t">>
sActivePending ==
    <<"A", "c", "t", "i", "v", "e", " ", "P", "e", "n", "d", "i", "n", "g">>
sTerminations ==
    <<"T", "e", "r", "m", "i", "n", "a", "t", "i", "o", "n", "s">>

\* knownSections, in page order.
knownSections ==
    << sFilings, sResolutions, sClearance, sClearancePercent, sBacklog,
       sBacklogPer100, sBacklogPercent, sActivePending >>

\* sectionAliases: alias -> canonical name.
sectionAliases == { [alias |-> sTerminations, canonical |-> sResolutions] }

\* A mutant that compares the joined line, spaces kept, with the compacted
\* names.
matchSectionNameSpacesKept(line) ==
    LET joined == Join(line, <<" ">>)
        hits == {i \in 1..Len(knownSections) :
                    joined = RemoveAll(knownSections[i], " ")}
        aliasHits == {a \in sectionAliases : joined = RemoveAll(a.alias, " ")}
    IN IF hits # {}
       THEN knownSections[CHOOSE i \in hits : \A k \in hits : i <= k]
       ELSE IF aliasHits # {}
       THEN (CHOOSE a \in aliasHits : TRUE).canonical
       ELSE <<>>

\* matchSectionName(line): the first known section whose name, spaces removed,
\* equals the joined line, spaces removed; else the canonical name of a
\* matching alias; else the empty string.
matchSectionName(line) ==
    LET joined == Join(line, <<" ">>)
        compact == RemoveAll(joined, " ")
        hits == {i \in 1..Len(knownSections) :
                    compact = RemoveAll(knownSections[i], " ")}
        aliasHits == {a \in sectionAliases : compact = RemoveAll(a.alias, " ")}
    IN IF hits # {}
       THEN knownSections[CHOOSE i \in hits : \A k \in hits : i <= k]
       ELSE IF aliasHits # {}
       THEN (CHOOSE a \in aliasHits : TRUE).canonical
       ELSE <<>>

\* The items the matcher is run on: whole names, names with an inner space,
\* kerning-split pieces, an alias and items that belong to no name.
MsPieces ==
    { sFilings, sResolutions, sClearance, sClearancePercent, sBacklog,
      sActivePending, sTerminations,
      <<"F">>,
      <<"i", "l", "i", "n", "g", "s">>,
      <<"P", "e", "r", "c", "e", "n", "t">>,
      <<"B", "a", "c", "k", "l", "o", "g", "/", "1", "0", "0">>,
      <<"M", "t", "h", "l", "y">>,
      <<"A", "c", "t", "i", "v", "e">>,
      <<"P", "e", "n", "d", "i", "n", "g">>,
      <<"N", "o", "t", "A", "S", "e", "c", "t", "i", "o", "n">>,
      <<"f", "i", "l", "i", "n", "g", "s">>,
      <<"C", "l", "e", "a", "r", "a", "n", "c", "e", "\t", "P", "e", "r", "c", "e", "n", "t">> }

MsInit ==
    \E line \in SeqsUpTo(MsPieces, MaxPieces) \ {<<>>} :
        ms = [pc |-> "call", line |-> line, result |-> <<>>]

\* The call matchSectionName(line).
MsCall ==
    /\ ms.pc = "call"
    /\ ms' = [ms EXCEPT !.pc = "done", !.result = matchSectionName(ms.line)]
    /\ UNCHANGED <<gl, cs, mc, tj, pp,
                 tk, ex, pf, cc, cm, dh, fd>>

InitMatch ==
    /\ MsInit
    /\ gl = Idle /\ cs = Idle /\ mc = Idle /\ tj = Idle /\ pp = Idle
    /\ tk = Idle /\ ex = Idle /\ pf = Idle /\ cc = Idle /\ cm = Idle /\ dh = Idle /\ fd = Idle

NextMatch == MsCall

SpecMatch == InitMatch /\ [][NextMatch]_vars

(***************************************************************************)
(* Claims about matchSectionName.                                          *)
(***************************************************************************)
\* The items of the line concatenated, with every space removed.
MsConcat == RemoveAll(Flatten(ms.line), " ")

\* C10: matchSectionName returns the known section name N when the items of
\* the line, concatenated with every space removed, equal N with its spaces
\* removed; the canonical name of an alias when they equal the alias with its
\* spaces removed; and the empty string for every other line.
C10_MatchSectionName ==
    ms.pc = "done" =>
        /\ \A i \in 1..Len(knownSections) :
              MsConcat = RemoveAll(knownSections[i], " ")
                  => ms.result = knownSections[i]
        /\ \A a \in sectionAliases :
              MsConcat = RemoveAll(a.alias, " ") => ms.result = a.canonical
        /\ ((\A i \in 1..Len(knownSections) :
                 MsConcat # RemoveAll(knownSections[i], " "))
            /\ (\A a \in sectionAliases : MsConcat # RemoveAll(a.alias, " ")))
              => ms.result = <<>>
        /\ ms.line = << sClearance, <<"P", "e", "r", "c", "e", "n", "t">> >>
              => ms.result = sClearancePercent
        /\ ms.line = << <<"F">>, <<"i", "l", "i", "n", "g", "s">> >>
              => ms.result = sFilings
        /\ ms.line = << sTerminations >> => ms.result = sResolutions

\* The matcher has returned "Clearance Percent" for the kerning-split line
\* ["Clearance", "Percent"].
C10_Witness ==
    /\ ms.pc = "done"
    /\ ms.line = << sClearance, <<"P", "e", "r", "c", "e", "n", "t">> >>
    /\ ms.result = sClearancePercent

(***************************************************************************)
(* looksLikeCommaSplit and mergeCommaSplitNumbers                          *)
(***************************************************************************)
\* isThreeDigits(s)
isThreeDigits(s) ==
    IF Len(s) # 3 THEN FALSE ELSE \A i \in 1..Len(s) : s[i] \in Digits

\* strings.LastIndex(s, c) for a one-character c, counted from 1; 0 when c
\* does not occur (the code's -1).
LastIndex(s, c) ==
    IF \E i \in 1..Len(s) : s[i] = c
    THEN CHOOSE i \in 1..Len(s) : s[i] = c /\ \A k \in (i + 1)..Len(s) : s[k] # c
    ELSE 0

\* strings.TrimPrefix(s, c) for a one-character c
TrimPrefix(s, c) == IF s # <<>> /\ Head(s) = c THEN Tail(s) ELSE s

\* A mutant that accepts a left value of up to 3 digits.
looksLikeCommaSplitThreeLeft(left, right) ==
    IF ~isThreeDigits(right) THEN FALSE
    ELSE IF left = <<>> THEN FALSE
    ELSE IF left[Len(left)] \notin Digits THEN FALSE
    ELSE IF LastIndex(left, ",") > 0
    THEN isThreeDigits(SubSeq(left, LastIndex(left, ",") + 1, Len(left)))
    ELSE LET stripped == TrimPrefix(left, "-") IN
         IF Len(stripped) < 1 \/ Len(stripped) > 3 THEN FALSE
         ELSE \A i \in 1..Len(stripped) : stripped[i] \in Digits

\* looksLikeCommaSplit(left, right)
looksLikeCommaSplit(left, right) ==
    IF ~isThreeDigits(right) THEN FALSE
    ELSE IF left = <<>> THEN FALSE
    ELSE IF left[Len(left)] \notin Digits THEN FALSE
    ELSE IF LastIndex(left, ",") > 0
    THEN isThreeDigits(SubSeq(left, LastIndex(left, ",") + 1, Len(left)))
    ELSE LET stripped == TrimPrefix(left, "-") IN
         IF Len(stripped) < 1 \/ Len(stripped) > 2 THEN FALSE
         ELSE \A i \in 1..Len(stripped) : stripped[i] \in Digits

\* The priority the merge loop gives a qualifying pair.
pairPriority(left, right) ==
    IF right[1] = "0" THEN 3
    ELSE LET d0 == TrimPrefix(left, "-")
             idx == LastIndex(d0, ",")
             digits == IF idx > 0 THEN SubSeq(d0, idx + 1, Len(d0)) ELSE d0
         IN IF Len(digits) = 1 THEN 2
            ELSE IF Len(digits) = 2 THEN 1
            ELSE 0

\* A mutant of the comparison that lets a later pair of equal priority win.
betterPairOrEqual(priority, bestPriority) == priority >= bestPriority

\* The comparison `priority > bestPriority` of the scan.
betterPair(priority, bestPriority) == priority > bestPriority

\* The inner loop of mergeCommaSplitNumbers from index i on (indices counted
\* from 1; bestIdx 0 is the code's -1).
RECURSIVE bestScan(_, _, _, _)
bestScan(line, i, bestIdx, bestPriority) ==
    IF i > Len(line) - 1 THEN bestIdx
    ELSE IF ~looksLikeCommaSplit(line[i], line[i + 1])
    THEN bestScan(line, i + 1, bestIdx, bestPriority)
    ELSE LET priority == pairPriority(line[i], line[i + 1]) IN
         IF betterPair(priority, bestPriority)
         THEN bestScan(line, i + 1, i, priority)
         ELSE bestScan(line, i + 1, bestIdx, bestPriority)

\* A mutant whose inner loop finds no pair.
bestPairIdxNone(line) == 0

\* bestIdx after the inner loop.
bestPairIdx(line) == bestScan(line, 1, 0, -1)

\* A mutant that keeps the right item of the merged pair in the line.
mergeAtKeepRight(line, bestIdx) ==
    SubSeq(line, 1, bestIdx - 1)
        \o << line[bestIdx] \o <<",">> \o line[bestIdx + 1] >>
        \o SubSeq(line, bestIdx + 1, Len(line))

\* The line with the pair at bestIdx merged.
mergeAt(line, bestIdx) ==
    SubSeq(line, 1, bestIdx - 1)
        \o << line[bestIdx] \o <<",">> \o line[bestIdx + 1] >>
        \o SubSeq(line, bestIdx + 2, Len(line))

\* A mutant of the loop condition that also runs at the expected length.
mergeLoopCondAtLen(line, expectedLen) == Len(line) >= expectedLen

\* The loop condition `len(line) > expectedLen`.
mergeLoopCond(line, expectedLen) == Len(line) > expectedLen

\* mergeCommaSplitNumbers(line, expectedLen)
RECURSIVE mergeCommaSplitNumbers(_, _)
mergeCommaSplitNumbers(line, expectedLen) ==
    IF ~mergeLoopCond(line, expectedLen) THEN line
    ELSE IF bestPairIdx(line) = 0 THEN line
    ELSE mergeCommaSplitNumbers(mergeAt(line, bestPairIdx(line)), expectedLen)

\* The characters of the left and right values looksLikeCommaSplit is run on.
CsLeftChars == {"-", ",", "1", "a"}
CsRightChars == {"0", "a"}

CsInit ==
    \E left \in SeqsUpTo(CsLeftChars, MaxLeftLen) :
    \E right \in SeqsUpTo(CsRightChars, MaxRightLen) :
        cs = [pc |-> "call", left |-> left, right |-> right, result |-> FALSE]

\* The call looksLikeCommaSplit(left, right).
CsCall ==
    /\ cs.pc = "call"
    /\ cs' = [cs EXCEPT !.pc = "done",
                        !.result = looksLikeCommaSplit(cs.left, cs.right)]
    /\ UNCHANGED <<gl, ms, mc, tj, pp,
                 tk, ex, pf, cc, cm, dh, fd>>

InitSplit ==
    /\ CsInit
    /\ gl = Idle /\ ms = Idle /\ mc = Idle /\ tj = Idle /\ pp = Idle
    /\ tk = Idle /\ ex = Idle /\ pf = Idle /\ cc = Idle /\ cm = Idle /\ dh = Idle /\ fd = Idle

NextSplit == CsCall

SpecSplit == InitSplit /\ [][NextSplit]_vars

\* The items of the lines mergeCommaSplitNumbers is run on.
McItems ==
    { <<"l", "a", "b">>, <<"1">>, <<"1", "2">>, <<"-", "1">>,
      <<"0", "0", "0">>, <<"3", "4", "5">>, <<"1", ",", "0", "0", "0">> }

McInit ==
    \E line \in SeqsUpTo(McItems, MaxLineLen) :
    \E n \in (-1)..MaxTarget :
        mc = [pc |-> "loop", input |-> line, expectedLen |-> n,
              line |-> line, bestIdx |-> 0]

\* One iteration of the outer loop that merges a pair.
McMerge ==
    /\ mc.pc = "loop"
    /\ mergeLoopCond(mc.line, mc.expectedLen)
    /\ bestPairIdx(mc.line) # 0
    /\ mc' = [mc EXCEPT !.bestIdx = bestPairIdx(mc.line),
                        !.line = mergeAt(mc.line, bestPairIdx(mc.line))]
    /\ UNCHANGED <<gl, ms, cs, tj, pp,
                 tk, ex, pf, cc, cm, dh, fd>>

\* The loop ends (length reached, or no pair qualifies) and the line is
\* returned.
McReturn ==
    /\ mc.pc = "loop"
    /\ \/ ~mergeLoopCond(mc.line, mc.expectedLen)
       \/ bestPairIdx(mc.line) = 0
    /\ mc' = [mc EXCEPT !.pc = "done",
                        !.bestIdx = IF mergeLoopCond(mc.line, mc.expectedLen)
                                    THEN 0 ELSE @]
    /\ UNCHANGED <<gl, ms, cs, tj, pp,
                 tk, ex, pf, cc, cm, dh, fd>>

InitMerge ==
    /\ McInit
    /\ gl = Idle /\ ms = Idle /\ cs = Idle /\ tj = Idle /\ pp = Idle
    /\ tk = Idle /\ ex = Idle /\ pf = Idle /\ cc = Idle /\ cm = Idle /\ dh = Idle /\ fd = Idle

NextMerge == McMerge \/ McReturn

SpecMerge == InitMerge /\ [][NextMerge]_vars

(***************************************************************************)
(* Claims about looksLikeCommaSplit.                                       *)
(***************************************************************************)
\* s consists of exactly n digits.
CsAllDigits(s, n) == Len(s) = n /\ \A i \in 1..Len(s) : s[i] \in Digits

\* C8: looksLikeCommaSplit(left, right) is true exactly when right is 3
\* digits, left is non-empty and ends in a digit, and either left holds a
\* comma and the text after its last comma is 3 digits, or left holds no comma
\* and is 1 or 2 digits, optionally preceded by one '-'; a bare 3-digit left
\* is never accepted.
C8_LooksLikeCommaSplit ==
    cs.pc = "done" =>
        LET l == cs.left
            r == cs.right
            hasComma == \E i \in 1..Len(l) : l[i] = ","
            afterComma ==
                \E i \in 1..Len(l) :
                    /\ l[i] = ","
                    /\ \A k \in (i + 1)..Len(l) : l[k] # ","
                    /\ Len(l) - i = 3
                    /\ \A k \in (i + 1)..Len(l) : l[k] \in Digits
            shortNumeral ==
                \/ CsAllDigits(l, 1) \/ CsAllDigits(l, 2)
                \/ /\ l # <<>> /\ l[1] = "-"
                   /\ (CsAllDigits(Tail(l), 1) \/ CsAllDigits(Tail(l), 2))
        IN /\ cs.result
                <=> /\ CsAllDigits(r, 3)
                    /\ l # <<>> /\ l[Len(l)] \in Digits
                    /\ \/ hasComma /\ afterComma
                       \/ ~hasComma /\ shortNumeral
           /\ CsAllDigits(l, 3) => ~cs.result

\* looksLikeCommaSplit has rejected a bare 3-digit left value next to a
\* 3-digit right value.
C8_Witness ==
    /\ cs.pc = "done"
    /\ cs.left = <<"1", "1", "1">>
    /\ cs.right = <<"0", "0", "0">>
    /\ ~cs.result

\* looksLikeCommaSplit has accepted an already merged left value.
C8_WitnessComma ==
    /\ cs.pc = "done"
    /\ cs.left = <<"1", ",", "1", "1", "1">>
    /\ cs.right = <<"0", "0", "0">>
    /\ cs.result

(***************************************************************************)
(* Claims about mergeCommaSplitNumbers.                                    *)
(***************************************************************************)
\* The indices of the adjacent pairs of the line that qualify.
McQualifying(line) ==
    {i \in 1..(Len(line) - 1) : looksLikeCommaSplit(line[i], line[i + 1])}

\* C6: mergeCommaSplitNumbers(line, n) returns the line unchanged whenever
\* len(line) <= n, also when the line holds qualifying pairs, and applying it
\* again with the same n to its result changes nothing.
C6_MergeAtLengthUnchanged ==
    mc.pc = "done" =>
        /\ Len(mc.input) <= mc.expectedLen => mc.line = mc.input
        /\ mergeCommaSplitNumbers(mc.line, mc.expectedLen) = mc.line

\* A returned call on a line at the expected length that holds a qualifying
\* pair.
C6_Witness ==
    /\ mc.pc = "done"
    /\ Len(mc.input) = mc.expectedLen
    /\ McQualifying(mc.input) # {}
    /\ mc.line = mc.input

\* The number of digits of a left item, its sign not counted; 0 when the item
\* is not a plain numeral.
McLeftDigits(left) ==
    LET body == IF left # <<>> /\ left[1] = "-" THEN Tail(left) ELSE left
    IN IF \A i \in 1..Len(body) : body[i] \in Digits THEN Len(body) ELSE 0

\* The priority of a pair as the claim states it.
McClaimPriority(left, right) ==
    IF right[1] = "0" THEN 3
    ELSE IF McLeftDigits(left) = 1 THEN 2
    ELSE IF McLeftDigits(left) = 2 THEN 1
    ELSE 0

\* The leftmost qualifying pair of highest priority.
McClaimBest(line) ==
    CHOOSE i \in McQualifying(line) :
        \A k \in McQualifying(line) :
            LET pi == McClaimPriority(line[i], line[i + 1])
                pk == McClaimPriority(line[k], line[k + 1])
            IN pi > pk \/ (pi = pk /\ i <= k)

\* C7: while the line is longer than the target, each step merges the
\* qualifying pair of highest priority (right starts with '0': 3; else left of
\* 1 digit: 2; left of 2 digits: 1), the leftmost one among equals.
C7_MergePriority ==
    [][(mc.pc = "loop" /\ mc'.pc = "loop")
          => /\ Len(mc.line) > mc.expectedLen
             /\ McQualifying(mc.line) # {}
             /\ mc'.bestIdx = McClaimBest(mc.line)
             /\ mc'.line[mc'.bestIdx]
                  = mc.line[mc'.bestIdx] \o <<",">> \o mc.line[mc'.bestIdx + 1]]_vars

\* The call on ["12","345","1","000"] with target 3 has merged "1","000" (a
\* leading zero on the right) and not the earlier pair "12","345".
C7_Witness ==
    /\ mc.pc = "done"
    /\ mc.input = << <<"1", "2">>, <<"3", "4", "5">>, <<"1">>, <<"0", "0", "0">> >>
    /\ mc.expectedLen = 3
    /\ mc.line = << <<"1", "2">>, <<"3", "4", "5">>, <<"1", ",", "0", "0", "0">> >>

\* All items of a line concatenated, commas removed.
McDigits(line) == RemoveAll(Flatten(line), ",")

\* C9: each merge step replaces one adjacent pair (a, b) by a + "," + b and
\* leaves every other item as it was and in place, so the length drops by one
\* and the items concatenated without commas stay the same; "-1","000" becomes
\* "-1,000" and "1,000","000" becomes "1,000,000".
C9_MergeFrame ==
    [][(mc.pc = "loop" /\ mc'.pc = "loop")
          => /\ Len(mc'.line) = Len(mc.line) - 1
             /\ \E i \in 1..(Len(mc.line) - 1) :
                   /\ \A k \in 1..(i - 1) : mc'.line[k] = mc.line[k]
                   /\ mc'.line[i] = mc.line[i] \o <<",">> \o mc.line[i + 1]
                   /\ \A k \in (i + 1)..Len(mc'.line) : mc'.line[k] = mc.line[k + 1]
             /\ McDigits(mc'.line) = McDigits(mc.line)
             /\ McDigits(mc'.line) = McDigits(mc.input)
             /\ (mc.line = << <<"-", "1">>, <<"0", "0", "0">> >>
                   => mc'.line = << <<"-", "1", ",", "0", "0", "0">> >>)
             /\ (mc.line = << <<"1", ",", "0", "0", "0">>, <<"0", "0", "0">> >>
                   => mc'.line
                        = << <<"1", ",", "0", "0", "0", ",", "0", "0", "0">> >>)]_vars

\* The call on ["lab","1","000","000"] with target 2 has merged twice, into
\* ["lab","1,000,000"].
C9_Witness ==
    /\ mc.pc = "done"
    /\ mc.input = << <<"l", "a", "b">>, <<"1">>, <<"0", "0", "0">>, <<"0", "0", "0">> >>
    /\ mc.expectedLen = 2
    /\ mc.line = << <<"l", "a", "b">>, <<"1", ",", "0", "0", "0", ",", "0", "0", "0">> >>

(***************************************************************************)
(* processTJArray                                                          *)
(***************************************************************************)
\* kerningThreshold
kerningThreshold == 500

\* A float64 is modelled as an integer number of tenths: Scale units make 1.
Scale == 10

Abs(x) == IF x < 0 THEN -x ELSE x

DigitVal(c) ==
    CASE c = "0" -> 0 [] c = "1" -> 1 [] c = "2" -> 2 [] c = "3" -> 3
      [] c = "4" -> 4 [] c = "5" -> 5 [] c = "6" -> 6 [] c = "7" -> 7
      [] c = "8" -> 8 [] c = "9" -> 9

RECURSIVE DecVal(_)
DecVal(ds) ==
    IF ds = <<>> THEN 0
    ELSE DecVal(SubSeq(ds, 1, Len(ds) - 1)) * 10 + DigitVal(ds[Len(ds)])

\* strconv.ParseFloat(s, 64) on the texts a number token can hold (a sign,
\* digits and dots): ok is err == nil, val the value in tenths.  Exact for
\* texts with at most one digit after the dot, which is all the model uses.
parseFloat(s) ==
    LET signed == s # <<>> /\ s[1] \in {"-", "+"}
        neg == s # <<>> /\ s[1] = "-"
        body == IF signed THEN Tail(s) ELSE s
        dots == {i \in 1..Len(body) : body[i] = "."}
        dot == IF dots = {} THEN 0 ELSE CHOOSE i \in dots : \A k \in dots : i <= k
        ip == IF dot = 0 THEN body ELSE SubSeq(body, 1, dot - 1)
        fp == IF dot = 0 THEN <<>> ELSE SubSeq(body, dot + 1, Len(body))
        ok == /\ \A i \in 1..Len(ip) : ip[i] \in Digits
              /\ \A i \in 1..Len(fp) : fp[i] \in Digits
              /\ Len(ip) + Len(fp) >= 1
        mag == IF ok
               THEN DecVal(ip) * Scale + (IF fp = <<>> THEN 0 ELSE DigitVal(fp[1]))
               ELSE 0
    IN [ok |-> ok, val |-> IF neg THEN -mag ELSE mag]

\* Tokens (token.kind, token.value).
TokString(v) == [kind |-> "tokString", value |-> v]
TokNumber(v) == [kind |-> "tokNumber", value |-> v]

\* A mutant that also splits at a gap of exactly the threshold.
gapExceedsOrEqual(gap) == Abs(gap) >= kerningThreshold * Scale

\* math.Abs(nextGap) > kerningThreshold
gapExceeds(gap) == Abs(gap) > kerningThreshold * Scale

\* The byte E9, which is no UTF-8 sequence by itself, and the rune U+FFFD;
\* like the control bytes they are written by name.
byteE9 == "0xE9"
runeError == "U+FFFD"

\* for _, ch := range v: the runes of the string v.  A byte that starts no
\* valid UTF-8 sequence is read as U+FFFD, and WriteRune and string(ch) write
\* that rune.
rangeRunes(v) == [k \in 1..Len(v) |-> IF v[k] = byteE9 THEN runeError ELSE v[k]]

\* The inner loop over the characters of a string child.
RECURSIVE tjChars(_, _, _)
tjChars(st, chars, tcThousandths) ==
    IF chars = <<>> THEN st
    ELSE LET split == ~st.isFirst /\ Len(st.cur) > 0 /\ gapExceeds(st.nextGap)
         IN tjChars([items |-> IF split THEN Append(st.items, st.cur) ELSE st.items,
                     cur |-> (IF split THEN <<>> ELSE st.cur) \o <<Head(chars)>>,
                     isFirst |-> FALSE,
                     nextGap |-> tcThousandths],
                    Tail(chars), tcThousandths)

\* One iteration of the loop over the children.
tjChild(st, c, tcThousandths) ==
    IF c.kind = "tokString" THEN tjChars(st, rangeRunes(c.value), tcThousandths)
    ELSE IF c.kind = "tokNumber"
    THEN IF parseFloat(c.value).ok
         THEN [st EXCEPT !.nextGap = @ - parseFloat(c.value).val]
         ELSE st
    ELSE st

\* The flush after the loop.
tjFlush(st) == IF Len(st.cur) > 0 THEN Append(st.items, st.cur) ELSE st.items

RECURSIVE tjLoop(_, _, _)
tjLoop(st, children, tcThousandths) ==
    IF children = <<>> THEN st
    ELSE tjLoop(tjChild(st, Head(children), tcThousandths), Tail(children),
                tcThousandths)

\* processTJArray(children, tcThousandths)
processTJArray(children, tcThousandths) ==
    tjFlush(tjLoop([items |-> <<>>, cur |-> <<>>, isFirst |-> TRUE, nextGap |-> 0],
                   children, tcThousandths))

\* The children of the arrays the rule is run on: strings of 0, 1 and 2
\* characters, displacements at, above and far above the threshold, and a
\* number token that does not parse.
TjChildren ==
    { TokString(<<>>), TokString(<<"8">>), TokString(<<"2", "3">>),
      TokNumber(<<"0">>), TokNumber(<<"5", "0", "0">>),
      TokNumber(<<"-", "5", "0", "0", ".", "1">>),
      TokNumber(<<"1", "0", "0", "0">>), TokNumber(<<"-">>) }

\* [(8)0(8)-4704.6(2)0(3)]
TjFixture ==
    << TokString(<<"8">>), TokNumber(<<"0">>), TokString(<<"8">>),
       TokNumber(<<"-", "4", "7", "0", "4", ".", "6">>),
       TokString(<<"2">>), TokNumber(<<"0">>), TokString(<<"3">>) >>

\* The values of Tc*1000 the rule is run with, in tenths: 0, 500, 1000 and
\* -500.1.
TjSpacings == {0, 500 * Scale, 1000 * Scale, -(500 * Scale + 1)}

\* [(8<E9>)] and [(<E9>)1000(8)]: strings that hold the byte E9.
TjHighBytes ==
    { << TokString(<<"8", byteE9>>) >>,
      << TokString(<<byteE9>>), TokNumber(<<"1", "0", "0", "0">>),
         TokString(<<"8">>) >> }

TjInit ==
    \E children \in SeqsUpTo(TjChildren, MaxChildren) \cup {TjFixture}
                        \cup TjHighBytes :
    \E tc \in TjSpacings :
        tj = [pc |-> "loop", children |-> children, tcThousandths |-> tc,
              i |-> 1, items |-> <<>>, cur |-> <<>>, isFirst |-> TRUE,
              nextGap |-> 0]

\* One iteration of the loop over the children.
TjIterate ==
    /\ tj.pc = "loop"
    /\ tj.i <= Len(tj.children)
    /\ LET st == tjChild([items |-> tj.items, cur |-> tj.cur,
                          isFirst |-> tj.isFirst, nextGap |-> tj.nextGap],
                         tj.children[tj.i], tj.tcThousandths)
       IN tj' = [tj EXCEPT !.i = @ + 1, !.items = st.items, !.cur = st.cur,
                           !.isFirst = st.isFirst, !.nextGap = st.nextGap]
    /\ UNCHANGED <<gl, ms, cs, mc, pp,
                 tk, ex, pf, cc, cm, dh, fd>>

\* The end of the loop: the open fragment is flushed and the items returned.
TjReturn ==
    /\ tj.pc = "loop"
    /\ tj.i > Len(tj.children)
    /\ tj' = [tj EXCEPT !.pc = "done",
                        !.items = tjFlush([items |-> tj.items, cur |-> tj.cur]),
                        !.cur = <<>>]
    /\ UNCHANGED <<gl, ms, cs, mc, pp,
                 tk, ex, pf, cc, cm, dh, fd>>

InitTJ ==
    /\ TjInit
    /\ gl = Idle /\ ms = Idle /\ cs = Idle /\ mc = Idle /\ pp = Idle
    /\ tk = Idle /\ ex = Idle /\ pf = Idle /\ cc = Idle /\ cm = Idle /\ dh = Idle /\ fd = Idle

NextTJ == TjIterate \/ TjReturn

SpecTJ == InitTJ /\ [][NextTJ]_vars

(***************************************************************************)
(* Claims about processTJArray.                                            *)
(***************************************************************************)
\* For every character of the array's string children, in order, the index of
\* the child it belongs to.
RECURSIVE TjCharOwners(_, _)
TjCharOwners(children, k) ==
    IF k > Len(children) THEN <<>>
    ELSE (IF children[k].kind = "tokString"
          THEN [i \in 1..Len(children[k].value) |-> k]
          ELSE <<>>) \o TjCharOwners(children, k + 1)

\* The sum of the numeric children with an index in lo..hi.
RECURSIVE TjSum(_, _, _)
TjSum(children, lo, hi) ==
    IF lo > hi THEN 0
    ELSE (IF children[lo].kind = "tokNumber" /\ parseFloat(children[lo].value).ok
          THEN parseFloat(children[lo].value).val ELSE 0)
         + TjSum(children, lo + 1, hi)

\* The character counts after which a returned fragment ends and another one
\* starts.
TjBoundaries(items) ==
    {Len(Flatten(SubSeq(items, 1, k))) : k \in 1..(Len(items) - 1)}

\* C2: between two consecutive characters of the string children a fragment
\* boundary is placed exactly when |Tc*1000 - S| > 500, S the sum of the
\* numeric children between the two characters; a gap of exactly 500 does not
\* split, numbers before the first character have no effect, and
\* [(8)0(8)-4704.6(2)0(3)] with Tc = 0 yields "88" and "23".
C2_KerningBoundaries ==
    tj.pc = "done" =>
        LET owners == TjCharOwners(tj.children, 1)
            n == Len(owners)
        IN /\ \A p \in 1..(n - 1) :
                 (p \in TjBoundaries(tj.items))
                   <=> Abs(tj.tcThousandths
                             - TjSum(tj.children, owners[p] + 1, owners[p + 1] - 1))
                         > 500 * Scale
           /\ TjBoundaries(tj.items) \subseteq 1..(n - 1)
           /\ (tj.children = TjFixture /\ tj.tcThousandths = 0)
                 => tj.items = << <<"8", "8">>, <<"2", "3">> >>

\* The rule has returned "88" and "23" for [(8)0(8)-4704.6(2)0(3)] with Tc = 0.
C2_Witness ==
    /\ tj.pc = "done"
    /\ tj.children = TjFixture
    /\ tj.tcThousandths = 0
    /\ tj.items = << <<"8", "8">>, <<"2", "3">> >>

\* With Tc*1000 = 1000 and a displacement of 1000 between them, two characters
\* have stayed in one fragment.
C2_WitnessCancel ==
    /\ tj.pc = "done"
    /\ tj.tcThousandths = 1000 * Scale
    /\ tj.children = << TokString(<<"8">>), TokNumber(<<"1", "0", "0", "0">>),
                        TokString(<<"8">>) >>
    /\ tj.items = << <<"8", "8">> >>

(***************************************************************************)
(* ParsePage                                                               *)
(***************************************************************************)
\* The number of fields of a data row: the label and 9 values.
RowLen == 10

\* The marker the title must contain.
sMunicipalCourt ==
    <<"M", "U", "N", "I", "C", "I", "P", "A", "L", " ", "C", "O", "U", "R", "T">>

\* strings.Contains(s, sub)
Contains(s, sub) ==
    \E i \in 1..(Len(s) - Len(sub) + 1) : SubSeq(s, i, i + Len(sub) - 1) = sub

\* A mutant that pads a short row with empty strings.
padValueEmpty == <<>>

\* The value a short row is padded with: "- -".
padValue == <<"-", " ", "-">>

\* for len(line) < 10 { line = append(line, "- -") }
RECURSIVE padRow(_)
padRow(line) == IF Len(line) < RowLen THEN padRow(Append(line, padValue)) ELSE line

\* if len(line) > 10 { line = line[:10] }
truncRow(line) == IF Len(line) > RowLen THEN SubSeq(line, 1, RowLen) ELSE line

\* The zero value of RowData.
zeroRow ==
    [Label |-> <<>>, Indictables |-> <<>>, DPAndPDP |-> <<>>,
     OtherCriminal |-> <<>>, CriminalTotal |-> <<>>, DWI |-> <<>>,
     TrafficMoving |-> <<>>, Parking |-> <<>>, TrafficTotal |-> <<>>,
     GrandTotal |-> <<>>]

\* The RowData literal that readRow returns.
rowData(line) ==
    [Label |-> line[1], Indictables |-> line[2], DPAndPDP |-> line[3],
     OtherCriminal |-> line[4], CriminalTotal |-> line[5], DWI |-> line[6],
     TrafficMoving |-> line[7], Parking |-> line[8], TrafficTotal |-> line[9],
     GrandTotal |-> line[10]]

\* readRow after nextLine has returned `line`: ok is err == nil.
readRow(line) ==
    LET merged == mergeCommaSplitNumbers(line, RowLen) IN
    IF Len(merged) < 1
    THEN [ok |-> FALSE, merged |-> merged, row |-> zeroRow]
    ELSE [ok |-> TRUE, merged |-> merged,
          row |-> rowData(truncRow(padRow(merged)))]

\* A mutant that accepts the name of any known section, whatever is expected.
sectionNameOkAnySection(line, expected) == matchSectionName(line) # <<>>

\* readSectionName after nextLine has returned `line`: TRUE when it returns
\* nil.
sectionNameOk(line, expected) ==
    LET m == matchSectionName(line)
        got == IF m = <<>> THEN Join(line, <<" ">>) ELSE m
    IN got = expected

\* A mutant whose skip loop passes over no line.
ppSkipsNever(line) == FALSE

\* The test of the skip loop: the line at pos matches no section name.
ppSkips(line) == matchSectionName(line) = <<>>

\* A mutant in which Clearance is read as a three-row section.
ppSectionsClearanceThreeRows ==
    << [name |-> sFilings, rows |-> 3], [name |-> sResolutions, rows |-> 3],
       [name |-> sClearance, rows |-> 3], [name |-> sClearancePercent, rows |-> 2],
       [name |-> sBacklog, rows |-> 3], [name |-> sBacklogPer100, rows |-> 3],
       [name |-> sBacklogPercent, rows |-> 2], [name |-> sActivePending, rows |-> 3] >>

\* A mutant in which Backlog Percent is read as a three-row section.
ppSectionsBacklogPercentThreeRows ==
    << [name |-> sFilings, rows |-> 3], [name |-> sResolutions, rows |-> 3],
       [name |-> sClearance, rows |-> 2], [name |-> sClearancePercent, rows |-> 2],
       [name |-> sBacklog, rows |-> 3], [name |-> sBacklogPer100, rows |-> 3],
       [name |-> sBacklogPercent, rows |-> 3], [name |-> sActivePending, rows |-> 3] >>

\* The sections ParsePage reads, in order, with the number of data rows of
\* the reader each one uses (readSectionWithChange: 3, readSectionTwoRow: 2).
ppSections ==
    << [name |-> sFilings, rows |-> 3], [name |-> sResolutions, rows |-> 3],
       [name |-> sClearance, rows |-> 2], [name |-> sClearancePercent, rows |-> 2],
       [name |-> sBacklog, rows |-> 3], [name |-> sBacklogPer100, rows |-> 3],
       [name |-> sBacklogPercent, rows |-> 2], [name |-> sActivePending, rows |-> 3] >>

\* The zero value of MunicipalityStats; sections[s] holds the rows of the
\* s-th section (PriorPeriod, CurrentPeriod and, with 3 rows, PctChange).
zeroStats ==
    [County |-> <<>>, Municipality |-> <<>>, DateRange |-> <<>>,
     sections |-> [s \in 1..Len(ppSections)
                     |-> [r \in 1..ppSections[s].rows |-> zeroRow]]]

\* The lines of the pages ParsePage is run on.
lnTitle == << sMunicipalCourt >>
lnDate == << <<"J", "U", "L", "Y">>, <<"2", "0", "2", "3">> >>
lnCounty == << <<"A", "T", "L">> >>
lnMuni == << <<"A", "B", "S">> >>
lnNoise == << <<"I", "n", "d">>, <<"D", "W", "I">> >>
lnRow ==
    << <<"l", "a", "b">>, <<"1">>, <<"2">>, <<"3">>, <<"4">>, <<"5">>,
       <<"6">>, <<"7">>, <<"8">>, <<"9">> >>
lnRowShort == << <<"l", "a", "b">>, <<"1">>, <<"2">> >>
lnRowSplit ==
    << <<"l", "a", "b">>, <<"1">>, <<"0", "0", "0">>, <<"2">>, <<"3">>, <<"4">>,
       <<"5">>, <<"6">>, <<"7">>, <<"8">>, <<"9">> >>
lnRowLong ==
    << <<"l", "a", "b">>, <<"1">>, <<"0", "0", "0">>, <<"a">>, <<"b">>, <<"c">>,
       <<"d">>, <<"e">>, <<"f">>, <<"g">>, <<"h">>, <<"i">> >>

\* A well-formed page with k column-header lines after the header.
RECURSIVE PpSectionLines(_)
PpSectionLines(s) ==
    IF s > Len(ppSections) THEN <<>>
    ELSE << <<ppSections[s].name>> >>
           \o [r \in 1..ppSections[s].rows |-> lnRow]
           \o PpSectionLines(s + 1)

PpBase(k) ==
    <<lnTitle, lnDate, lnCounty, lnMuni>> \o [i \in 1..k |-> lnNoise]
        \o PpSectionLines(1)

\* The lines an edit puts into a well-formed page.
PpEditLines ==
    { lnRow, lnRowShort, lnRowSplit, lnRowLong, lnNoise,
      << <<"C", "O", "V", "E", "R">> >>,
      << <<"M", "U", "N", "I", "C", "I", "P", "A", "L">>, <<"C", "O", "U", "R", "T">> >>,
      << sTerminations >>,
      << <<"F">>, <<"i", "l", "i", "n", "g", "s">> >>,
      << sClearance, <<"P", "e", "r", "c", "e", "n", "t">> >> }
        \cup { << ppSections[s].name >> : s \in 1..Len(ppSections) }

\* The pages: a well-formed page, or one with a line replaced, a line
\* inserted, or cut short.
PpPages ==
    UNION { LET base == PpBase(k) IN
            {base}
              \cup { SubSeq(base, 1, p) : p \in 0..(Len(base) - 1) }
              \cup { [base EXCEPT ![p] = x] : p \in 1..Len(base), x \in PpEditLines }
              \cup { SubSeq(base, 1, p - 1) \o <<x>> \o SubSeq(base, p, Len(base)) :
                        p \in 1..Len(base), x \in PpEditLines }
          : k \in 0..MaxNoise }

\* The fragments of a page: every line preceded by a line-break sentinel.
RECURSIVE PpItems(_)
PpItems(lines) ==
    IF lines = <<>> THEN <<>> ELSE << <<>> >> \o Head(lines) \o PpItems(Tail(lines))

\* ParsePage(items) up to its first read: lines grouped, pos 0, stats zero.
\* pos counts from 0 as in the code; lines[pos] of the code is lines[pos + 1].
PpInit ==
    \E page \in PpPages :
        pp = [pc |-> "title", items |-> PpItems(page),
              lines |-> groupIntoLines(PpItems(page)), pos |-> 0,
              stats |-> zeroStats, err |-> "", sec |-> 0, rows |-> <<>>,
              merged |-> <<>>]

\* nextLine() returns an error.
ppAtEnd == pp.pos >= Len(pp.lines)

\* The line nextLine() and peekLine() return.
ppLine == pp.lines[pp.pos + 1]

PpFail(e) == [pp EXCEPT !.pc = "failed", !.err = e]

\* Read the title line and test it for "MUNICIPAL COURT".
PpTitle ==
    /\ pp.pc = "title"
    /\ pp' = IF ppAtEnd THEN PpFail("eof")
             ELSE IF ~Contains(Join(ppLine, <<" ">>), sMunicipalCourt)
             THEN [PpFail("title") EXCEPT !.pos = @ + 1]
             ELSE [pp EXCEPT !.pos = @ + 1, !.pc = "date"]
    /\ UNCHANGED <<gl, ms, cs, mc, tj,
                 tk, ex, pf, cc, cm, dh, fd>>

\* Read the date range line.
PpDate ==
    /\ pp.pc = "date"
    /\ pp' = IF ppAtEnd THEN PpFail("eof")
             ELSE [pp EXCEPT !.pos = @ + 1, !.pc = "county",
                             !.stats.DateRange = Join(ppLine, <<" ">>)]
    /\ UNCHANGED <<gl, ms, cs, mc, tj,
                 tk, ex, pf, cc, cm, dh, fd>>

\* Read the county line.
PpCounty ==
    /\ pp.pc = "county"
    /\ pp' = IF ppAtEnd THEN PpFail("eof")
             ELSE [pp EXCEPT !.pos = @ + 1, !.pc = "muni",
                             !.stats.County = Join(ppLine, <<" ">>)]
    /\ UNCHANGED <<gl, ms, cs, mc, tj,
                 tk, ex, pf, cc, cm, dh, fd>>

\* Read the municipality line.
PpMuni ==
    /\ pp.pc = "muni"
    /\ pp' = IF ppAtEnd THEN PpFail("eof")
             ELSE [pp EXCEPT !.pos = @ + 1, !.pc = "skip",
                             !.stats.Municipality = Join(ppLine, <<" ">>)]
    /\ UNCHANGED <<gl, ms, cs, mc, tj,
                 tk, ex, pf, cc, cm, dh, fd>>

\* One iteration of the loop that skips column-header lines.
PpSkipLine ==
    /\ pp.pc = "skip"
    /\ ~ppAtEnd
    /\ ppSkips(ppLine)
    /\ pp' = [pp EXCEPT !.pos = @ + 1]
    /\ UNCHANGED <<gl, ms, cs, mc, tj,
                 tk, ex, pf, cc, cm, dh, fd>>

\* The skip loop ends: at a section name line or at the end of the lines.
PpSkipEnd ==
    /\ pp.pc = "skip"
    /\ IF ppAtEnd THEN TRUE ELSE ~ppSkips(ppLine)
    /\ pp' = [pp EXCEPT !.pc = "section", !.sec = 1]
    /\ UNCHANGED <<gl, ms, cs, mc, tj,
                 tk, ex, pf, cc, cm, dh, fd>>

\* readSectionName(name) at the start of a section reader.
PpSectionName ==
    /\ pp.pc = "section"
    /\ pp' = IF ppAtEnd THEN PpFail("eof")
             ELSE IF ~sectionNameOk(ppLine, ppSections[pp.sec].name)
             THEN [PpFail("section") EXCEPT !.pos = @ + 1]
             ELSE [pp EXCEPT !.pos = @ + 1, !.pc = "row", !.rows = <<>>]
    /\ UNCHANGED <<gl, ms, cs, mc, tj,
                 tk, ex, pf, cc, cm, dh, fd>>

\* readRow(name) in a section reader; after the last row of a section the
\* section is stored in stats, and after the last section ParsePage returns.
PpRow ==
    /\ pp.pc = "row"
    /\ pp' = IF ppAtEnd THEN PpFail("eof")
             ELSE LET r == readRow(ppLine)
                      rows == Append(pp.rows, r.row)
                  IN IF ~r.ok
                     THEN [PpFail("empty") EXCEPT !.pos = @ + 1, !.merged = r.merged]
                     ELSE IF Len(rows) < ppSections[pp.sec].rows
                     THEN [pp EXCEPT !.pos = @ + 1, !.rows = rows,
                                     !.merged = r.merged]
                     ELSE [pp EXCEPT !.pos = @ + 1, !.rows = rows,
                                     !.merged = r.merged,
                                     !.stats.sections[pp.sec] = rows,
                                     !.sec = IF @ < Len(ppSections) THEN @ + 1 ELSE @,
                                     !.pc = IF pp.sec < Len(ppSections)
                                            THEN "section" ELSE "done"]
    /\ UNCHANGED <<gl, ms, cs, mc, tj,
                 tk, ex, pf, cc, cm, dh, fd>>

InitPage ==
    /\ PpInit
    /\ gl = Idle /\ ms = Idle /\ cs = Idle /\ mc = Idle /\ tj = Idle
    /\ tk = Idle /\ ex = Idle /\ pf = Idle /\ cc = Idle /\ cm = Idle /\ dh = Idle /\ fd = Idle

NextPage ==
    \/ PpTitle \/ PpDate \/ PpCounty \/ PpMuni
    \/ PpSkipLine \/ PpSkipEnd \/ PpSectionName \/ PpRow

SpecPage == InitPage /\ [][NextPage]_vars

(***************************************************************************)
(* Claims about ParsePage.  Line indices count from 0, as in the code.     *)
(***************************************************************************)
\* Line i of the grouped lines.
PpLineAt(i) == pp.lines[i + 1]

\* The fields of a RowData in column order.
PpFields(rd) ==
    << rd.Label, rd.Indictables, rd.DPAndPDP, rd.OtherCriminal,
       rd.CriminalTotal, rd.DWI, rd.TrafficMoving, rd.Parking, rd.TrafficTotal,
       rd.GrandTotal >>

\* C3: every RowData the row reader builds has exactly 10 fields; with n the
\* number of items of the line after number repair with target 10, field k
\* (k = 0..9) is item k when k < n and "- -" when k >= n, items from index 10
\* on are dropped, and no line is rejected for its number of items.
C3_RowDataTenFields ==
    [][(pp.pc = "row" /\ ~ppAtEnd)
          => /\ pp'.pc # "failed"
             /\ pp'.pos = pp.pos + 1
             /\ Len(pp'.rows) = Len(pp.rows) + 1
             /\ LET rd == pp'.rows[Len(pp'.rows)]
                    items == pp'.merged
                    n == Len(items)
                IN /\ DOMAIN rd
                        = {"Label", "Indictables", "DPAndPDP", "OtherCriminal",
                           "CriminalTotal", "DWI", "TrafficMoving", "Parking",
                           "TrafficTotal", "GrandTotal"}
                   /\ n >= 1
                   /\ items = mergeCommaSplitNumbers(PpLineAt(pp.pos), 10)
                   /\ \A k \in 0..9 :
                         PpFields(rd)[k + 1]
                           = IF k < n THEN items[k + 1] ELSE <<"-", " ", "-">>]_vars

\* A row of 3 items has been read: its last 7 fields are "- -".
C3_Witness ==
    /\ pp.pc \in {"row", "section", "done"}
    /\ pp.rows # <<>>
    /\ Len(pp.merged) = 3
    /\ pp.rows[Len(pp.rows)].OtherCriminal = <<"-", " ", "-">>
    /\ pp.rows[Len(pp.rows)].GrandTotal = <<"-", " ", "-">>

\* A row of 12 items has been read: one pair was merged and the 11th item of
\* the repaired line was dropped.
C3_WitnessLong ==
    /\ pp.pc \in {"row", "section", "done"}
    /\ pp.rows # <<>>
    /\ Len(pp.merged) = 11
    /\ pp.rows[Len(pp.rows)].Indictables = <<"1", ",", "0", "0", "0">>
    /\ pp.rows[Len(pp.rows)].GrandTotal = pp.merged[10]

\* The index of the first line at index >= 4 that matches a section name; the
\* number of lines when there is none.
PpFirstSection ==
    LET hits == {i \in 4..(Len(pp.lines) - 1) : matchSectionName(PpLineAt(i)) # <<>>}
    IN IF hits = {} THEN Len(pp.lines)
       ELSE CHOOSE i \in hits : \A k \in hits : i <= k

\* Where, counted from the first section line, each section's name line lies,
\* and the names expected there.
PpNameOffsets == <<0, 4, 8, 11, 14, 18, 22, 25>>

PpNames ==
    << sFilings, sResolutions, sClearance, sClearancePercent, sBacklog,
       sBacklogPer100, sBacklogPercent, sActivePending >>

\* The condition under which the claim says ParsePage succeeds.
PpSuccessCondition ==
    /\ Len(pp.lines) >= 4
    /\ Contains(Join(PpLineAt(0), <<" ">>), sMunicipalCourt)
    /\ PpFirstSection < Len(pp.lines)
    /\ Len(pp.lines) >= PpFirstSection + 29
    /\ \A s \in 1..8 :
          matchSectionName(PpLineAt(PpFirstSection + PpNameOffsets[s])) = PpNames[s]

\* C4: ParsePage succeeds exactly when there are at least 4 lines, the first
\* contains "MUNICIPAL COURT", some line at index >= 4 matches a section name
\* and, with j the first such index, the lines at j, j+4, j+8, j+11, j+14,
\* j+18, j+22, j+25 resolve to the eight sections in order and at least j+29
\* lines exist; the cursor only moves forward and the sections are read one
\* after the other, each name line once, at its place.
C4_ParsePageSucceedsIff ==
    /\ [](/\ pp.pc = "done" => PpSuccessCondition /\ pp.pos = PpFirstSection + 29
          /\ pp.pc = "failed" => ~PpSuccessCondition)
    /\ [][/\ pp'.pos >= pp.pos
          /\ pp'.sec \in {pp.sec, pp.sec + 1}
          /\ (pp.pc = "section" /\ pp'.pc = "row")
                => /\ pp'.sec = pp.sec
                   /\ pp.pos = PpFirstSection + PpNameOffsets[pp.sec]
          /\ (pp.pc = "row" /\ pp'.pc = "section") => pp'.sec = pp.sec + 1]_vars

\* A page with two column-header lines and with "Terminations" for
\* "Resolutions" has been parsed to its end.
C4_Witness ==
    /\ pp.pc = "done"
    /\ PpFirstSection = 6
    /\ PpLineAt(10) = << sTerminations >>
    /\ pp.pos = 35
    /\ Len(pp.lines) = 35

\* The k-th line ParsePage has to read (k = 0..32) lies at this index: the 4
\* header lines, then the 29 lines from the first section line (index j) on.
PpRequiredAt(j, k) == IF k < 4 THEN k ELSE j + (k - 4)

\* What is wrong with the k-th required line: "eof" when the lines end before
\* it, "title" when it is the title without the marker, "section" when a
\* section name is expected there and the line does not resolve to it.
PpProblem(j, k) ==
    IF PpRequiredAt(j, k) >= Len(pp.lines) THEN "eof"
    ELSE IF k = 0
    THEN IF Contains(Join(PpLineAt(0), <<" ">>), sMunicipalCourt) THEN "" ELSE "title"
    ELSE IF \E s \in 1..8 :
               /\ k = 4 + PpNameOffsets[s]
               /\ matchSectionName(PpLineAt(PpRequiredAt(j, k))) # PpNames[s]
    THEN "section"
    ELSE ""

\* C5: when the title lacks "MUNICIPAL COURT", or the lines end before the 4
\* header lines, the 8 section-name lines and all data rows are read, or a
\* line read as a section name does not resolve to the expected section, then
\* ParsePage returns an error and no record, and reads no line after the one
\* that failed.
C5_ParsePageErrors ==
    pp.pc \in {"done", "failed"} =>
        LET j == PpFirstSection
            problem == [k \in 0..32 |-> PpProblem(j, k)]
        IN \A k \in 0..32 :
              (problem[k] # "" /\ \A h \in 0..(k - 1) : problem[h] = "")
                => /\ pp.pc = "failed"
                   /\ pp.err = problem[k]
                   /\ pp.pos = IF problem[k] = "eof" THEN Len(pp.lines)
                               ELSE PpRequiredAt(j, k) + 1

\* ParsePage has failed at the name line of the third section, after two
\* sections were read.
C5_Witness ==
    /\ pp.pc = "failed"
    /\ pp.err = "section"
    /\ pp.sec = 3
    /\ pp.pos = PpFirstSection + 9

\* ParsePage has failed because the lines ended inside a section.
C5_WitnessEof ==
    /\ pp.pc = "failed"
    /\ pp.err = "eof"
    /\ pp.sec = 5
    /\ pp.pos = Len(pp.lines)

\* ParsePage has failed at the title.
C5_WitnessTitle ==
    /\ pp.pc = "failed"
    /\ pp.err = "title"
    /\ pp.pos = 1

(***************************************************************************)
(* tokenize, readString, readArray.  Positions count from 0 as in the      *)
(* code: s[i] of the code is s[i + 1] here.                                *)
(***************************************************************************)
TokOperator(v) == [kind |-> "tokOperator", value |-> v]
TokArray(children) == [kind |-> "tokArray", value |-> <<>>, children |-> children]

\* ' ', '\t', '\r', '\n'
tkSpace == {" ", "\t", "\r", "\n"}

\* ch == '-' || ch == '+' || ch == '.' || (ch >= '0' && ch <= '9')
tkNumStart(ch) == ch \in {"-", "+", "."} \cup Digits

OctDigits == {"0", "1", "2", "3", "4", "5", "6", "7"}

\* for i < n && s[i] is none of stops { i++ }
RECURSIVE scanUntil(_, _, _)
scanUntil(s, i, stops) ==
    IF i < Len(s) /\ s[i + 1] \notin stops THEN scanUntil(s, i + 1, stops) ELSE i

\* for i < n && s[i] is one of set { i++ }
RECURSIVE scanWhile(_, _, _)
scanWhile(s, i, set) ==
    IF i < Len(s) /\ s[i + 1] \in set THEN scanWhile(s, i + 1, set) ELSE i

\* The end of the number that starts at s[i]: an optional sign, then digits
\* and dots.
numEnd(s, i) ==
    scanWhile(s, IF s[i + 1] \in {"-", "+"} THEN i + 1 ELSE i, Digits \cup {"."})

\* The loop that skips a hex string or dictionary, counting '<' and '>'.
RECURSIVE skipHex(_, _, _)
skipHex(s, i, depth) ==
    IF i < Len(s) /\ depth > 0
    THEN skipHex(s, i + 1, IF s[i + 1] = "<" THEN depth + 1
                           ELSE IF s[i + 1] = ">" THEN depth - 1
                           ELSE depth)
    ELSE i

\* strconv.ParseInt(oct, 8, 32) on one to three octal digits.
RECURSIVE OctVal(_)
OctVal(ds) ==
    IF ds = <<>> THEN 0
    ELSE OctVal(SubSeq(ds, 1, Len(ds) - 1)) * 8 + DigitVal(ds[Len(ds)])

\* The character with byte value v, for the values the octal escapes of the
\* model's streams produce; the byte 1 and the other control bytes have no
\* text of their own and are written by name.
ByteChar(v) ==
    CASE v = 1 -> "SOH" [] v = 9 -> "\t" [] v = 10 -> "\n" [] v = 13 -> "\r"
      [] v = 32 -> " " [] v = 40 -> "(" [] v = 41 -> ")" [] v = 49 -> "1"
      [] v = 65 -> "A" [] v = 73 -> "I" [] OTHER -> "NUL"

\* The byte a backslash followed by next stands for, when next is no octal
\* digit.
unescape(next) ==
    CASE next = "n" -> "\n" [] next = "r" -> "\r" [] next = "t" -> "\t"
      [] OTHER -> next

\* A mutant that takes the escape branch without looking for a next byte.
rsEscapeGuardAlways(i, n) == TRUE

\* i+1 < n in the test for a backslash escape.
rsEscapeGuard(i, n) == i + 1 < n

\* The number of octal digits, at most 2, read after the first one at s[i].
octalMore(s, i) ==
    IF i + 1 < Len(s) /\ s[i + 2] \in OctDigits
    THEN IF i + 2 < Len(s) /\ s[i + 3] \in OctDigits THEN 2 ELSE 1
    ELSE 0

\* The locals of tokenize at its start; pc names the loop that is running,
\* ret the caller of readString.
tkStart(s) ==
    [pc |-> "main", s |-> s, i |-> 0, tokens |-> <<>>, children |-> <<>>,
     buf |-> <<>>, depth |-> 0, ret |-> "main"]

\* The call readString(s, i): skip the opening '('.
rsCall(st, ret) ==
    [st EXCEPT !.pc = "string", !.ret = ret, !.i = @ + 1, !.depth = 1,
               !.buf = <<>>]

\* readString returns: the caller appends the string token.
rsReturn(st) ==
    IF st.ret = "main"
    THEN [st EXCEPT !.pc = "main", !.tokens = Append(@, TokString(st.buf)),
                    !.buf = <<>>, !.depth = 0]
    ELSE [st EXCEPT !.pc = "array", !.children = Append(@, TokString(st.buf)),
                    !.buf = <<>>, !.depth = 0]

\* readArray returns: tokenize appends the array token.
raReturn(st) ==
    [st EXCEPT !.pc = "main", !.tokens = Append(@, TokArray(st.children)),
               !.children = <<>>]

\* One iteration of the loop of readString.  Reading s[i] at i >= n panics.
rsStep(st) ==
    LET s == st.s
        n == Len(s)
        i == st.i
        ch == s[i + 1]
    IN IF ch = "\\" /\ rsEscapeGuard(i, n)
       THEN IF i + 1 >= n THEN [st EXCEPT !.pc = "panic", !.i = i + 1]
            ELSE LET next == s[i + 2]
                     k == octalMore(s, i + 1)
                 IN IF next \in OctDigits
                    THEN [st EXCEPT
                            !.buf = Append(@, ByteChar(
                                       OctVal(SubSeq(s, i + 2, i + 2 + k)) % 256)),
                            !.i = i + 2 + k]
                    ELSE [st EXCEPT !.buf = Append(@, unescape(next)),
                                    !.i = i + 2]
       ELSE IF ch = "("
       THEN [st EXCEPT !.depth = @ + 1, !.buf = Append(@, ch), !.i = i + 1]
       ELSE IF ch = ")"
       THEN [st EXCEPT !.depth = @ - 1,
                       !.buf = IF st.depth - 1 > 0 THEN Append(@, ch) ELSE @,
                       !.i = i + 1]
       ELSE [st EXCEPT !.buf = Append(@, ch), !.i = i + 1]

\* One iteration of the loop of readArray.
raStep(st) ==
    LET s == st.s
        i == st.i
        ch == s[i + 1]
    IN IF ch \in tkSpace THEN [st EXCEPT !.i = i + 1]
       ELSE IF ch = "]" THEN raReturn([st EXCEPT !.i = i + 1])
       ELSE IF ch = "(" THEN rsCall(st, "array")
       ELSE IF tkNumStart(ch)
       THEN [st EXCEPT !.i = numEnd(s, i),
                       !.children = Append(@, TokNumber(SubSeq(s, i + 1, numEnd(s, i))))]
       ELSE [st EXCEPT !.i = i + 1]

\* One iteration of the main loop of tokenize.
tkMain(st) ==
    LET s == st.s
        i == st.i
        ch == s[i + 1]
    IN IF ch \in tkSpace THEN [st EXCEPT !.i = i + 1]
       ELSE IF ch = "%" THEN [st EXCEPT !.i = scanUntil(s, i, {"\n", "\r"})]
       ELSE IF ch = "(" THEN rsCall(st, "main")
       ELSE IF ch = "["
       THEN [st EXCEPT !.pc = "array", !.i = i + 1, !.children = <<>>]
       ELSE IF tkNumStart(ch)
       THEN [st EXCEPT !.i = numEnd(s, i),
                       !.tokens = Append(@, TokNumber(SubSeq(s, i + 1, numEnd(s, i))))]
       ELSE IF ch = "/"
       THEN [st EXCEPT !.i = scanUntil(s, i + 1, tkSpace \cup {"/", "(", "[", "<"})]
       ELSE IF ch = "<" THEN [st EXCEPT !.i = skipHex(s, i + 1, 1)]
       ELSE IF ch \in {"]", ">"} THEN [st EXCEPT !.i = i + 1]
       ELSE LET e == scanUntil(s, i, tkSpace \cup {"(", "[", "/", "<"})
                word == SubSeq(s, i + 1, e)
            IN [st EXCEPT !.i = e,
                          !.tokens = IF word # <<>>
                                     THEN Append(@, TokOperator(word)) ELSE @]

\* The loop tests after an iteration: readString returns when its loop
\* condition fails, and readArray returns at the end of the input.
tkSettle(st) ==
    LET a == IF st.pc = "string" /\ ~(st.i < Len(st.s) /\ st.depth > 0)
             THEN rsReturn(st) ELSE st
    IN IF a.pc = "array" /\ a.i >= Len(a.s) THEN raReturn(a) ELSE a

\* One iteration of the loop that is running.
tkStep(st) ==
    tkSettle(CASE st.pc = "main" -> tkMain(st)
               [] st.pc = "string" -> rsStep(st)
               [] st.pc = "array" -> raStep(st))

\* The locals of tokenize when it returns or panics.
RECURSIVE tkRun(_)
tkRun(st) ==
    IF st.pc = "panic" \/ (st.pc = "main" /\ st.i >= Len(st.s)) THEN st
    ELSE tkRun(tkStep(st))

\* tokenize(s)
tokenize(s) == tkRun(tkStart(s)).tokens

\* The bytes the streams are made of: the delimiters, a backslash, an octal
\* digit and another digit, a sign, a dot, a letter, an escape letter, a blank
\* and a line end.
TkAlphabet ==
    {"(", ")", "[", "]", "<", ">", "\\", "/", "%", "1", "8", "-", ".", "T", "n",
     " ", "\n"}

\* The elements written in an array or at top level: strings, numbers, hex
\* strings and names.
elString == <<"(", "a", ")">>
elNumber == <<"-", "1", "2">>
elHex == <<"<", "0", "0", "4", "1", ">">>
elHexLetters == <<"<", "A", "B", ">">>
elName == <<"/", "F", "1">>
elNameLetters == <<"/", "F", "a">>
TkElements == {elString, elNumber, elHex, elHexLetters, elName, elNameLetters}

\* The elements separated by blanks, and the same inside [ and ].
RenderTop(es) == Join(es, <<" ">>)
RenderArray(es) == <<"[">> \o Join(es, <<" ">>) \o <<"]">>

\* [(a)[(b)](c)](d) and [[1]2]
TkNested ==
    { <<"[", "(", "a", ")", "[", "(", "b", ")", "]", "(", "c", ")", "]", "(", "d", ")">>,
      <<"[", "[", "1", "]", "2", "]">> }

TkStreams ==
    SeqsUpTo(TkAlphabet, MaxStream)
      \cup { RenderTop(es) : es \in SeqsUpTo(TkElements, MaxElements) }
      \cup { RenderArray(es) : es \in SeqsUpTo(TkElements, MaxElements) }
      \cup TkNested

TkInit == \E s \in TkStreams : tk = tkStart(s)

\* An iteration of the main loop.
TkMain ==
    /\ tk.pc = "main"
    /\ tk.i < Len(tk.s)
    /\ tk' = tkStep(tk)
    /\ UNCHANGED <<gl, ms, cs, mc, tj, pp, ex, pf, cc, cm, dh, fd>>

\* An iteration of the loop of readString.
TkReadString ==
    /\ tk.pc = "string"
    /\ tk' = tkStep(tk)
    /\ UNCHANGED <<gl, ms, cs, mc, tj, pp, ex, pf, cc, cm, dh, fd>>

\* An iteration of the loop of readArray.
TkReadArray ==
    /\ tk.pc = "array"
    /\ tk' = tkStep(tk)
    /\ UNCHANGED <<gl, ms, cs, mc, tj, pp, ex, pf, cc, cm, dh, fd>>

\* The main loop ends and tokenize returns the tokens.
TkReturn ==
    /\ tk.pc = "main"
    /\ tk.i >= Len(tk.s)
    /\ tk' = [tk EXCEPT !.pc = "done"]
    /\ UNCHANGED <<gl, ms, cs, mc, tj, pp, ex, pf, cc, cm, dh, fd>>

InitTokenize ==
    /\ TkInit
    /\ gl = Idle /\ ms = Idle /\ cs = Idle /\ mc = Idle /\ tj = Idle /\ pp = Idle
    /\ ex = Idle /\ pf = Idle /\ cc = Idle /\ cm = Idle /\ dh = Idle /\ fd = Idle

NextTokenize == TkMain \/ TkReadString \/ TkReadArray \/ TkReturn

SpecTokenize == InitTokenize /\ [][NextTokenize]_vars

(***************************************************************************)
(* ExtractTextItems.  tc is in tenths, as every float64 of the model.      *)
(***************************************************************************)
opTj == <<"T", "j">>
opTJ == <<"T", "J">>
opTD == <<"T", "D">>
opTd == <<"T", "d">>
opTm == <<"T", "m">>
opTc == <<"T", "c">>

\* for _, ch := range s.value { items = append(items, string(ch)) }
charItems(v) == [k \in 1..Len(v) |-> <<rangeRunes(v)[k]>>]

\* A mutant that also splits a Tj string at a spacing of exactly the
\* threshold.
tjSplitsAtThreshold(tc) == Abs(tc * 1000) >= kerningThreshold * Scale

\* math.Abs(tc*1000) > kerningThreshold
tjSplits(tc) == gapExceeds(tc * 1000)

\* A mutant that breaks the line at every TD/Td with two operands.
tdBreaksAlways(stack) == Len(stack) >= 2

\* len(stack) >= 2, and the last operand parses to a non-zero number.
tdBreaks(stack) ==
    /\ Len(stack) >= 2
    /\ parseFloat(stack[Len(stack)].value).ok
    /\ parseFloat(stack[Len(stack)].value).val # 0

\* The locals of ExtractTextItems before tokenize is called.
exStart(stream) ==
    [pc |-> "tokenize", stream |-> stream, tokens |-> <<>>, i |-> 0,
     stack |-> <<>>, tc |-> 0, items |-> <<>>]

\* case "Tj"
exTj(e) ==
    IF e.stack # <<>> /\ e.stack[Len(e.stack)].kind = "tokString"
    THEN LET s == e.stack[Len(e.stack)]
         IN [e EXCEPT !.items = IF tjSplits(e.tc) THEN @ \o charItems(s.value)
                                ELSE Append(@, s.value)]
    ELSE e

\* case "TJ"
exTJ(e) ==
    IF e.stack # <<>> /\ e.stack[Len(e.stack)].kind = "tokArray"
    THEN [e EXCEPT !.items = @ \o processTJArray(e.stack[Len(e.stack)].children,
                                                 e.tc * 1000)]
    ELSE e

\* case "TD", "Td"
exTD(e) == IF tdBreaks(e.stack) THEN [e EXCEPT !.items = Append(@, <<>>)] ELSE e

\* case "Tm"
exTm(e) == [e EXCEPT !.items = Append(@, <<>>)]

\* case "Tc"
exTc(e) ==
    IF e.stack # <<>> /\ parseFloat(e.stack[Len(e.stack)].value).ok
    THEN [e EXCEPT !.tc = parseFloat(e.stack[Len(e.stack)].value).val]
    ELSE e

\* One iteration of the loop over the tokens: an operator acts and clears the
\* operand stack, any other token is pushed.
exStep(e) ==
    LET t == e.tokens[e.i + 1]
        acted == IF t.kind # "tokOperator" THEN e
                 ELSE IF t.value = opTj THEN exTj(e)
                 ELSE IF t.value = opTJ THEN exTJ(e)
                 ELSE IF t.value \in {opTD, opTd} THEN exTD(e)
                 ELSE IF t.value = opTm THEN exTm(e)
                 ELSE IF t.value = opTc THEN exTc(e)
                 ELSE e
    IN [acted EXCEPT !.i = @ + 1,
                     !.stack = IF t.kind = "tokOperator" THEN <<>>
                               ELSE Append(@, t)]

RECURSIVE exRun(_)
exRun(e) == IF e.i >= Len(e.tokens) THEN e ELSE exRun(exStep(e))

\* ExtractTextItems(stream)
ExtractTextItems(stream) ==
    exRun([exStart(stream) EXCEPT !.pc = "loop", !.tokens = tokenize(stream)]).items

\* The pieces the streams are made of.
pcShow == <<"(", "a", "b", ")", " ", "T", "j">>
pcShowEmpty == <<"(", ")", " ", "T", "j">>
pcShowNumber == <<"(", "a", "b", ")", " ", "7", " ", "T", "j">>
pcString == <<"(", "c", ")">>
pcTcAt == <<"0", ".", "5", " ", "T", "c">>
pcTcAbove == <<"0", ".", "6", " ", "T", "c">>
pcTcBelow == <<"-", "0", ".", "6", " ", "T", "c">>
pcTcNone == <<"T", "c">>
pcTcString == <<"(", "0", ".", "6", ")", " ", "T", "c">>
pcMoveDown == <<"0", " ", "-", "1", "2", " ", "T", "D">>
pcMoveUp == <<"0", " ", "1", ".", "5", " ", "T", "d">>
pcMoveFlat == <<"5", " ", "0", " ", "T", "D">>
pcMoveZero == <<"0", " ", "-", "0", " ", "T", "d">>
pcMoveOne == <<"-", "1", "2", " ", "T", "d">>
pcArray == <<"[", "(", "a", ")", "-", "6", "0", "0", "(", "b", ")", "]", " ", "T", "J">>
pcTm == <<"1", " ", "0", " ", "0", " ", "1", " ", "0", " ", "0", " ", "T", "m">>
pcBT == <<"B", "T">>

ExPieces ==
    { pcShow, pcShowEmpty, pcShowNumber, pcString, pcTcAt, pcTcAbove,
      pcTcBelow, pcTcNone, pcTcString, pcMoveDown, pcMoveUp, pcMoveFlat, pcMoveZero,
      pcMoveOne, pcArray, pcTm, pcBT }

ExInit ==
    \E ops \in SeqsUpTo(ExPieces, MaxOps) : ex = exStart(Join(ops, <<" ">>))

\* tokens := tokenize(string(stream))
ExTokenize ==
    /\ ex.pc = "tokenize"
    /\ ex' = [ex EXCEPT !.pc = "loop", !.tokens = tokenize(ex.stream)]
    /\ UNCHANGED <<gl, ms, cs, mc, tj, pp, tk, pf, cc, cm, dh, fd>>

\* One iteration of the loop over the tokens.
ExIterate ==
    /\ ex.pc = "loop"
    /\ ex.i < Len(ex.tokens)
    /\ ex' = exStep(ex)
    /\ UNCHANGED <<gl, ms, cs, mc, tj, pp, tk, pf, cc, cm, dh, fd>>

\* return items
ExReturn ==
    /\ ex.pc = "loop"
    /\ ex.i >= Len(ex.tokens)
    /\ ex' = [ex EXCEPT !.pc = "done"]
    /\ UNCHANGED <<gl, ms, cs, mc, tj, pp, tk, pf, cc, cm, dh, fd>>

InitExtract ==
    /\ ExInit
    /\ gl = Idle /\ ms = Idle /\ cs = Idle /\ mc = Idle /\ tj = Idle /\ pp = Idle
    /\ tk = Idle /\ pf = Idle /\ cc = Idle /\ cm = Idle /\ dh = Idle /\ fd = Idle

NextExtract == ExTokenize \/ ExIterate \/ ExReturn

SpecExtract == InitExtract /\ [][NextExtract]_vars

(***************************************************************************)
(* Claims about ExtractTextItems.                                          *)
(***************************************************************************)
\* The step from ex to ex' is the loop iteration on an operator named op.
ExActs(ops) ==
    /\ ex.pc = "loop"
    /\ ex.i < Len(ex.tokens)
    /\ ex'.i = ex.i + 1
    /\ ex.tokens[ex.i + 1].kind = "tokOperator"
    /\ ex.tokens[ex.i + 1].value \in ops

C11_WitnessSplit ==
    /\ ex.pc = "loop"
    /\ ex.i >= 2
    /\ ex.tokens[ex.i] = TokOperator(opTj)
    /\ ex.tokens[ex.i - 1] = TokString(<<"a", "b">>)
    /\ ex.tc * 1000 = 600 * Scale
    /\ Len(ex.items) >= 2
    /\ SubSeq(ex.items, Len(ex.items) - 1, Len(ex.items)) = << <<"a">>, <<"b">> >>

\* The text of a number token is a number other than zero.
ExNonZero(v) == parseFloat(v).ok /\ parseFloat(v).val # 0

\* The streams (ab) Tj, a move, (ab) Tj with a move whose ty is not zero, and
\* with one whose ty is zero.
ExAround(move) == Join(<<pcShow, move, pcShow>>, <<" ">>)
ExMovesLine == {pcMoveDown, pcMoveUp}
ExMovesFlat == {pcMoveFlat, pcMoveZero}

\* C12: on TD or Td with the operands tx ty, exactly one line-break sentinel
\* is appended if ty is a number other than zero and nothing if ty is zero;
\* two strings shown around a move with ty # 0 end up in different lines and
\* two strings shown around a move with ty = 0 in the same line.
C12_MoveBreaksLine ==
    /\ []( ex.pc = "done" =>
             /\ \A m \in ExMovesLine :
                    ex.stream = ExAround(m) =>
                        groupIntoLines(ex.items)
                            = << << <<"a", "b">> >>, << <<"a", "b">> >> >>
             /\ \A m \in ExMovesFlat :
                    ex.stream = ExAround(m) =>
                        groupIntoLines(ex.items)
                            = << << <<"a", "b">>, <<"a", "b">> >> >> )
    /\ [][ (/\ ExActs({opTD, opTd})
            /\ Len(ex.stack) >= 2
            /\ ex.stack[Len(ex.stack)].kind = "tokNumber")
           => ex'.items = IF ExNonZero(ex.stack[Len(ex.stack)].value)
                          THEN ex.items \o << <<>> >>
                          ELSE ex.items ]_vars

\* (ab) Tj 0 -12 TD (ab) Tj has been read: the sentinel stands between the
\* two strings.
C12_Witness ==
    /\ ex.pc = "done"
    /\ ex.stream = ExAround(pcMoveDown)
    /\ ex.items = << <<"a", "b">>, <<>>, <<"a", "b">> >>

\* (ab) Tj 5 0 TD (ab) Tj has been read: no sentinel.
C12_WitnessFlat ==
    /\ ex.pc = "done"
    /\ ex.stream = ExAround(pcMoveFlat)
    /\ ex.items = << <<"a", "b">>, <<"a", "b">> >>

(***************************************************************************)
(* ParsePage as a function of the locals of one call, for the callers that *)
(* run it as a whole or next to another call.                              *)
(***************************************************************************)
\* The locals of ParsePage(items) before its first read.
ppStart(items) ==
    [pc |-> "title", items |-> items, lines |-> groupIntoLines(items),
     pos |-> 0, stats |-> zeroStats, err |-> "", sec |-> 0, rows |-> <<>>,
     merged |-> <<>>]

\* One read of ParsePage on the locals p: the title, date, county and
\* municipality lines, one iteration of the skip loop, a section name or a
\* row.
ppStep(p) ==
    LET atEnd == p.pos >= Len(p.lines)
        line == p.lines[p.pos + 1]
        fail(e) == [p EXCEPT !.pc = "failed", !.err = e]
    IN CASE p.pc = "title" ->
              IF atEnd THEN fail("eof")
              ELSE IF ~Contains(Join(line, <<" ">>), sMunicipalCourt)
              THEN [fail("title") EXCEPT !.pos = @ + 1]
              ELSE [p EXCEPT !.pos = @ + 1, !.pc = "date"]
         [] p.pc = "date" ->
              IF atEnd THEN fail("eof")
              ELSE [p EXCEPT !.pos = @ + 1, !.pc = "county",
                             !.stats.DateRange = Join(line, <<" ">>)]
         [] p.pc = "county" ->
              IF atEnd THEN fail("eof")
              ELSE [p EXCEPT !.pos = @ + 1, !.pc = "muni",
                             !.stats.County = Join(line, <<" ">>)]
         [] p.pc = "muni" ->
              IF atEnd THEN fail("eof")
              ELSE [p EXCEPT !.pos = @ + 1, !.pc = "skip",
                             !.stats.Municipality = Join(line, <<" ">>)]
         [] p.pc = "skip" ->
              IF atEnd THEN [p EXCEPT !.pc = "section", !.sec = 1]
              ELSE IF ppSkips(line)
              THEN [p EXCEPT !.pos = @ + 1]
              ELSE [p EXCEPT !.pc = "section", !.sec = 1]
         [] p.pc = "section" ->
              IF atEnd THEN fail("eof")
              ELSE IF ~sectionNameOk(line, ppSections[p.sec].name)
              THEN [fail("section") EXCEPT !.pos = @ + 1]
              ELSE [p EXCEPT !.pos = @ + 1, !.pc = "row", !.rows = <<>>]
         [] p.pc = "row" ->
              IF atEnd THEN fail("eof")
              ELSE LET r == readRow(line)
                       rows == Append(p.rows, r.row)
                   IN IF ~r.ok
                      THEN [fail("empty") EXCEPT !.pos = @ + 1,
                                                 !.merged = r.merged]
                      ELSE IF Len(rows) < ppSections[p.sec].rows
                      THEN [p EXCEPT !.pos = @ + 1, !.rows = rows,
                                     !.merged = r.merged]
                      ELSE [p EXCEPT !.pos = @ + 1, !.rows = rows,
                                     !.merged = r.merged,
                                     !.stats.sections[p.sec] = rows,
                                     !.sec = IF @ < Len(ppSections)
                                             THEN @ + 1 ELSE @,
                                     !.pc = IF p.sec < Len(ppSections)
                                            THEN "section" ELSE "done"]

RECURSIVE ppRun(_)
ppRun(p) == IF p.pc \in {"done", "failed"} THEN p ELSE ppRun(ppStep(p))

\* ParsePage(items): ok is err == nil.
ParsePage(items) ==
    LET p == ppRun(ppStart(items))
    IN [ok |-> p.pc = "done", stats |-> p.stats, err |-> p.err]

(***************************************************************************)
(* ContainsFilings and parsePDFFile.                                       *)
(***************************************************************************)
\* A mutant that trims a fragment before comparing it.
ContainsFilingsTrimmed(items) ==
    \E k \in 1..Len(items) : TrimSpace(items[k]) = sFilings

\* ContainsFilings(items)
ContainsFilings(items) == \E k \in 1..Len(items) : items[k] = sFilings

\* The pages of the files: well-formed pages of two municipalities, a page
\* cut after its tenth line, a page with another title, a cover page, and
\* pages whose Filings label is followed by a blank or is split in two
\* fragments.
pgLines ==
    [ pageA |-> PpBase(0),
      pageB |-> [PpBase(0) EXCEPT ![4] = << <<"X", "Y">> >>],
      pageCut |-> SubSeq(PpBase(0), 1, 10),
      pageTitle |-> [PpBase(0) EXCEPT ![1] = << <<"C", "O", "V", "E", "R">> >>],
      pageCover |-> << << <<"C", "O", "V", "E", "R">> >>, lnDate >>,
      pageBlank |-> [PpBase(0) EXCEPT ![5] = << sFilings \o <<" ">> >>],
      pageSplit |-> [PpBase(0) EXCEPT
                       ![5] = << <<"F">>, <<"i", "l", "i", "n", "g", "s">> >>] ]

PfPages == DOMAIN pgLines

\* items := parser.ExtractTextItems(page), for every page.
pageItems == [page \in PfPages |-> PpItems(pgLines[page])]

\* parser.ParsePage(items), for every page.
pageParse == [page \in PfPages |-> ParsePage(pageItems[page])]

\* A mutant that gives up the file at the first page that fails.
pfErrAbort(st, err) ==
    [st EXCEPT !.pc = "loop", !.i = Len(st.pages),
               !.errors = Append(@, [page |-> st.i + 1, err |-> err])]

\* errors = append(errors, fmt.Sprintf("page %d: %v", i+1, err)); continue
\* The text "page <page>: <err>" is held as its two parts.
pfErr(st, err) ==
    [st EXCEPT !.pc = "loop", !.i = @ + 1,
               !.errors = Append(@, [page |-> st.i + 1, err |-> err])]

\* The locals of parsePDFFile after the streams have been extracted; i is
\* the loop index, counting from 0.
pfStart(pages) ==
    [pc |-> "loop", pages |-> pages, i |-> 0, results |-> <<>>,
     errors |-> <<>>]

PfInit == \E pages \in SeqsUpTo(PfPages, MaxPages) : pf = pfStart(pages)

\* The page is not a data page: continue.
PfSkip ==
    /\ pf.pc = "loop"
    /\ pf.i < Len(pf.pages)
    /\ ~ContainsFilings(pageItems[pf.pages[pf.i + 1]])
    /\ pf' = [pf EXCEPT !.i = @ + 1]
    /\ UNCHANGED <<gl, ms, cs, mc, tj, pp, tk, ex, cc, cm, dh, fd>>

\* The page is a data page: ParsePage is called with its items.
PfCall ==
    /\ pf.pc = "loop"
    /\ pf.i < Len(pf.pages)
    /\ ContainsFilings(pageItems[pf.pages[pf.i + 1]])
    /\ pf' = [pf EXCEPT !.pc = "parse"]
    /\ UNCHANGED <<gl, ms, cs, mc, tj, pp, tk, ex, cc, cm, dh, fd>>

\* ParsePage returned a record.
PfOk ==
    /\ pf.pc = "parse"
    /\ pageParse[pf.pages[pf.i + 1]].ok
    /\ pf' = [pf EXCEPT !.pc = "loop", !.i = @ + 1,
                        !.results = Append(@, pageParse[pf.pages[pf.i + 1]].stats)]
    /\ UNCHANGED <<gl, ms, cs, mc, tj, pp, tk, ex, cc, cm, dh, fd>>

\* ParsePage returned an error.
PfErr ==
    /\ pf.pc = "parse"
    /\ ~pageParse[pf.pages[pf.i + 1]].ok
    /\ pf' = pfErr(pf, pageParse[pf.pages[pf.i + 1]].err)
    /\ UNCHANGED <<gl, ms, cs, mc, tj, pp, tk, ex, cc, cm, dh, fd>>

\* return parseResult{...}
PfReturn ==
    /\ pf.pc = "loop"
    /\ pf.i >= Len(pf.pages)
    /\ pf' = [pf EXCEPT !.pc = "done"]
    /\ UNCHANGED <<gl, ms, cs, mc, tj, pp, tk, ex, cc, cm, dh, fd>>

InitFile ==
    /\ PfInit
    /\ gl = Idle /\ ms = Idle /\ cs = Idle /\ mc = Idle /\ tj = Idle /\ pp = Idle
    /\ tk = Idle /\ ex = Idle /\ cc = Idle /\ cm = Idle /\ dh = Idle /\ fd = Idle

NextFile == PfSkip \/ PfCall \/ PfOk \/ PfErr \/ PfReturn

SpecFile == InitFile /\ [][NextFile]_vars

(***************************************************************************)
(* Claims about ContainsFilings and parsePDFFile.                          *)
(***************************************************************************)
\* Some fragment is exactly the text Filings.
PfHasLiteral(items) ==
    \E k \in 1..Len(items) : items[k] = <<"F", "i", "l", "i", "n", "g", "s">>

\* The fragments of the page the loop is at.
PfItemsAt == pageItems[pf.pages[pf.i + 1]]

\* C13: ContainsFilings(items) is true if and only if at least one fragment
\* is exactly "Filings"; a page without such a fragment is not passed to
\* ParsePage: the loop goes on to the next page and results and errors stay
\* as they are.
C13_ContainsFilings ==
    /\ []( \A page \in PfPages :
               ContainsFilings(pageItems[page]) <=> PfHasLiteral(pageItems[page]) )
    /\ []( pf.pc = "parse" => PfHasLiteral(PfItemsAt) )
    /\ [][ (pf.pc = "loop" /\ pf.i < Len(pf.pages) /\ ~PfHasLiteral(PfItemsAt))
           => pf' = [pf EXCEPT !.i = @ + 1] ]_vars

\* A page whose label is "Filings " has been skipped, and ParsePage would
\* have taken it.
C13_Witness ==
    /\ pf.pc = "loop"
    /\ pf.i = 1
    /\ pf.pages[1] = "pageBlank"
    /\ pageParse["pageBlank"].ok
    /\ pf.results = <<>>
    /\ pf.errors = <<>>

\* The cover page has been skipped.
C13_WitnessCover ==
    /\ pf.pc = "done"
    /\ pf.pages = <<"pageCover">>
    /\ pf.results = <<>>
    /\ pf.errors = <<>>

\* The pages from index k on (from 1) that have a Filings fragment and whose
\* parse succeeds (ok = TRUE) or fails (ok = FALSE), in page order.
RECURSIVE PfDataPages(_, _, _)
PfDataPages(pages, k, ok) ==
    IF k > Len(pages) THEN <<>>
    ELSE (IF PfHasLiteral(pageItems[pages[k]]) /\ pageParse[pages[k]].ok = ok
          THEN <<k>> ELSE <<>>) \o PfDataPages(pages, k + 1, ok)

\* C14: a ParsePage failure on page i (from 1) adds exactly one entry
\* "page i: ..." to errors and nothing to results, and the loop goes on to the
\* next page; at the end results holds the records of the data pages that
\* parsed, in page order, errors one entry for each data page that failed,
\* and len(results) + len(errors) is the number of pages with a Filings
\* fragment.
C14_PageFailureIsolated ==
    /\ []( pf.pc = "done" =>
             LET good == PfDataPages(pf.pages, 1, TRUE)
                 bad == PfDataPages(pf.pages, 1, FALSE)
             IN /\ pf.results = [k \in 1..Len(good) |-> pageParse[pf.pages[good[k]]].stats]
                /\ Len(pf.errors) = Len(bad)
                /\ \A k \in 1..Len(bad) : pf.errors[k].page = bad[k]
                /\ Len(pf.results) + Len(pf.errors)
                     = Cardinality({k \in 1..Len(pf.pages) :
                                       PfHasLiteral(pageItems[pf.pages[k]])}) )
    /\ [][ (pf.pc = "parse" /\ ~pageParse[pf.pages[pf.i + 1]].ok)
           => /\ Len(pf'.errors) = Len(pf.errors) + 1
              /\ SubSeq(pf'.errors, 1, Len(pf.errors)) = pf.errors
              /\ pf'.errors[Len(pf'.errors)].page = pf.i + 1
              /\ pf'.results = pf.results
              /\ pf'.pc = "loop"
              /\ pf'.i = pf.i + 1 ]_vars

\* The first page failed, and the second page is in the results.
C14_Witness ==
    /\ pf.pc = "done"
    /\ pf.pages = <<"pageCut", "pageB">>
    /\ pf.errors = << [page |-> 1, err |-> "eof"] >>
    /\ pf.results = << pageParse["pageB"].stats >>
    /\ pf.results[1].Municipality = <<"X", "Y">>

(***************************************************************************)
(* Claims about tokenize.                                                  *)
(***************************************************************************)
\* The tokens of the strings and numbers among the elements es, in order.
RECURSIVE TkExpected(_)
TkExpected(es) ==
    IF es = <<>> THEN <<>>
    ELSE (IF Head(es) = elString THEN << TokString(<<"a">>) >>
          ELSE IF Head(es) = elNumber THEN << TokNumber(elNumber) >>
          ELSE <<>>) \o TkExpected(Tail(es))

\* At top level a hex string or a name gives no token: the tokens of a
\* stream of elements are its strings and numbers.  (This part of C15 holds.)
C15_TopLevel ==
    tk.pc = "done" =>
        \A es \in SeqsUpTo(TkElements, MaxElements) :
            tk.s = RenderTop(es) => tk.tokens = TkExpected(es)

\* C15: tokenize produces no token from a hex string <...> or a name /Name,
\* at top level or as an element of an array: the children of an array token
\* are exactly the strings and the numbers written as its elements, in order.
C15_NoTokenFromHexOrName ==
    tk.pc = "done" =>
        \A es \in SeqsUpTo(TkElements, MaxElements) :
            /\ tk.s = RenderTop(es) => tk.tokens = TkExpected(es)
            /\ tk.s = RenderArray(es) => tk.tokens = << TokArray(TkExpected(es)) >>

\* [<0041>] has been read, and the array token has the number child 0041.
C15_Witness ==
    /\ tk.pc = "done"
    /\ tk.s = RenderArray(<<elHex>>)
    /\ tk.tokens = << TokArray(<< TokNumber(<<"0", "0", "4", "1">>) >>) >>

\* [/F1] has been read, and the array token has the number child 1.
C15_WitnessName ==
    /\ tk.pc = "done"
    /\ tk.s = RenderArray(<<elName>>)
    /\ tk.tokens = << TokArray(<< TokNumber(<<"1">>) >>) >>

\* C16: tokenize returns its tokens without a panic after finitely many steps
\* for every input: every iteration of the main loop, of readString and of
\* readArray reads at a position before the end of the input and moves the
\* position forward by at least one, and never past the end; when the position
\* is at the end tokenize returns.
C16_TokenizeTerminates ==
    /\ []( /\ tk.pc \in {"main", "string", "array", "done"}
           /\ tk.i <= Len(tk.s)
           /\ tk.pc \in {"string", "array"} => tk.i < Len(tk.s)
           /\ tk.pc = "string" => tk.depth > 0
           /\ tk.pc = "done" => tk.i = Len(tk.s) )
    /\ [][ \/ tk.i < Len(tk.s) /\ tk'.i > tk.i /\ tk'.i <= Len(tk.s)
           \/ tk.pc = "main" /\ tk.i = Len(tk.s) /\ tk'.pc = "done"
                /\ tk'.tokens = tk.tokens ]_vars

\* [(\ has been read to its end: an unterminated array holding an
\* unterminated string that ends in a backslash.
C16_Witness ==
    /\ tk.pc = "done"
    /\ tk.s = <<"[", "(", "\\">>
    /\ tk.tokens = << TokArray(<< TokString(<<"\\">>) >>) >>

\* A stray ) ] and > have been read to the end: ) is an operator.
C16_WitnessStray ==
    /\ tk.pc = "done"
    /\ tk.s = <<")", "]", ">">>
    /\ tk.tokens = << TokOperator(<<")", "]", ">">>) >>

(***************************************************************************)
(* Concurrent calls: two callers, each running ExtractTextItems on a       *)
(* stream or ParsePage on a page, one loop iteration or read at a time.    *)
(* groupIntoLines, matchSectionName and mergeCommaSplitNumbers run inside  *)
(* the reads of ParsePage.                                                 *)
(***************************************************************************)
Callers == {"a", "b"}

\* The package-level variables of package parser.
ccPackage == [knownSections |-> knownSections, sectionAliases |-> sectionAliases]

\* The calls a caller makes.
CcJobs ==
    [fn : {"ExtractTextItems"},
     stream : { pcShow, Join(<<pcTcAbove, pcShow>>, <<" ">>),
                Join(<<pcShow, pcMoveDown, pcShow>>, <<" ">>) }]
      \cup [fn : {"ParsePage"}, page : {"pageA", "pageB", "pageCut"}]

\* The locals of a call at its start.
ccStart(job) ==
    IF job.fn = "ExtractTextItems" THEN exStart(job.stream)
    ELSE ppStart(pageItems[job.page])

\* The call has returned.
ccDone(loc) == loc.pc \in {"done", "failed"}

\* What the call returns.
ccResult(job, loc) ==
    IF job.fn = "ExtractTextItems" THEN loc.items
    ELSE [ok |-> loc.pc = "done", stats |-> loc.stats, err |-> loc.err]

\* The next step of ExtractTextItems on the locals e.
exNext(e) ==
    IF e.pc = "tokenize"
    THEN [e EXCEPT !.pc = "loop", !.tokens = tokenize(e.stream)]
    ELSE IF e.i < Len(e.tokens) THEN exStep(e)
    ELSE [e EXCEPT !.pc = "done"]

\* A mutant in which two calls of the same function work on the locals of
\* caller a.
ccLocalsShared(c) ==
    IF cc.jobs[c].fn = cc.jobs["a"].fn THEN cc.calls["a"] ELSE cc.calls[c]

\* The locals a step of caller c works on: items, stack, tc and the loop
\* index of ExtractTextItems, lines, pos and stats of ParsePage are variables
\* of the call.
ccLocals(c) == cc.calls[c]

CcInit ==
    \E jobs \in [Callers -> CcJobs] :
        cc = [pc |-> "run", pkg |-> ccPackage, jobs |-> jobs,
              calls |-> [c \in Callers |-> ccStart(jobs[c])]]

\* Caller c runs one step of ExtractTextItems.
CcExtract(c) ==
    /\ cc.pc = "run"
    /\ cc.jobs[c].fn = "ExtractTextItems"
    /\ ~ccDone(ccLocals(c))
    /\ cc' = [cc EXCEPT !.calls[c] = exNext(ccLocals(c))]
    /\ UNCHANGED <<gl, ms, cs, mc, tj, pp, tk, ex, pf, cm, dh, fd>>

\* Caller c runs one read of ParsePage.
CcParse(c) ==
    /\ cc.pc = "run"
    /\ cc.jobs[c].fn = "ParsePage"
    /\ ~ccDone(ccLocals(c))
    /\ cc' = [cc EXCEPT !.calls[c] = ppStep(ccLocals(c))]
    /\ UNCHANGED <<gl, ms, cs, mc, tj, pp, tk, ex, pf, cm, dh, fd>>

InitConcurrent ==
    /\ CcInit
    /\ gl = Idle /\ ms = Idle /\ cs = Idle /\ mc = Idle /\ tj = Idle /\ pp = Idle
    /\ tk = Idle /\ ex = Idle /\ pf = Idle /\ cm = Idle /\ dh = Idle /\ fd = Idle

NextConcurrent == \E c \in Callers : CcExtract(c) \/ CcParse(c)

SpecConcurrent == InitConcurrent /\ [][NextConcurrent]_vars

(***************************************************************************)
(* Claims about concurrent calls.                                          *)
(***************************************************************************)
\* What each call returns when it runs alone.
CcAlone ==
    [job \in CcJobs |->
        IF job.fn = "ExtractTextItems" THEN ExtractTextItems(job.stream)
        ELSE ParsePage(pageItems[job.page])]

\* C17: the calls never write package-level state (knownSections and
\* sectionAliases keep their values), a step of one call leaves the locals of
\* the other call (its line cursor, its Tc) as they are, and under every
\* interleaving each call returns what it returns when it runs alone.
C17_CallsIndependent ==
    /\ []( /\ cc.pkg = [knownSections |-> knownSections,
                        sectionAliases |-> sectionAliases]
           /\ \A c \in Callers :
                  ccDone(cc.calls[c]) =>
                      ccResult(cc.jobs[c], cc.calls[c]) = CcAlone[cc.jobs[c]] )
    /\ [][ /\ cc'.pkg = cc.pkg
           /\ cc'.jobs = cc.jobs
           /\ \E c \in Callers :
                  \A d \in Callers \ {c} : cc'.calls[d] = cc.calls[d] ]_vars

\* Two ParsePage calls on different pages are both under way, with their
\* cursors at different lines.
C17_Witness ==
    /\ cc.jobs["a"] = [fn |-> "ParsePage", page |-> "pageA"]
    /\ cc.jobs["b"] = [fn |-> "ParsePage", page |-> "pageB"]
    /\ cc.calls["a"].pc = "row"
    /\ cc.calls["a"].pos = 7
    /\ cc.calls["b"].pc = "muni"
    /\ cc.calls["b"].pos = 3

\* A call that has set Tc to 0.6 and a call with Tc = 0 have both returned:
\* the first has split its string, the second has not.
C17_WitnessTc ==
    /\ cc.jobs["a"].fn = "ExtractTextItems"
    /\ cc.jobs["b"].fn = "ExtractTextItems"
    /\ cc.calls["a"].pc = "done"
    /\ cc.calls["b"].pc = "done"
    /\ cc.calls["a"].tc = 6
    /\ cc.calls["b"].tc = 0
    /\ cc.calls["a"].items = << <<"a">>, <<"b">> >>
    /\ cc.calls["b"].items = << <<"a", "b">> >>

(***************************************************************************)
(* ParseCMap.  A glyph ID is a uint16: its arithmetic is modulo 2^16.      *)
(***************************************************************************)
\* The number of values of a uint16.
Uint16 == 65536

HexDigits ==
    Digits \cup {"a", "b", "c", "d", "e", "f", "A", "B", "C", "D", "E", "F"}

HexVal(c) ==
    CASE c \in Digits -> DigitVal(c)
      [] c \in {"a", "A"} -> 10 [] c \in {"b", "B"} -> 11
      [] c \in {"c", "C"} -> 12 [] c \in {"d", "D"} -> 13
      [] c \in {"e", "E"} -> 14 [] c \in {"f", "F"} -> 15

\* hex.DecodeString(t): ok is err == nil.
hexDecode(t) ==
    LET ok == Len(t) % 2 = 0 /\ \A k \in 1..Len(t) : t[k] \in HexDigits
    IN [ok |-> ok,
        bytes |-> IF ok
                  THEN [k \in 1..(Len(t) \div 2)
                          |-> 16 * HexVal(t[2 * k - 1]) + HexVal(t[2 * k])]
                  ELSE <<>>]

\* decodeUint16(h)
decodeUint16(h) ==
    LET d == hexDecode(TrimSpace(h))
    IN IF ~d.ok \/ Len(d.bytes) < 2 THEN 0 ELSE d.bytes[1] * 256 + d.bytes[2]

\* strings.Index(s, sub): the first position of sub in s, from 0, or -1.
Index(s, sub) ==
    LET at == {i \in 0..(Len(s) - Len(sub)) : SubSeq(s, i + 1, i + Len(sub)) = sub}
    IN IF at = {} THEN -1 ELSE CHOOSE i \in at : \A j \in at : i <= j

\* extractHexTokens(s)
RECURSIVE extractHexTokens(_)
extractHexTokens(s) ==
    LET start == Index(s, <<"<">>)
        rest == SubSeq(s, start + 2, Len(s))
        end == Index(rest, <<">">>)
    IN IF start < 0 THEN <<>>
       ELSE IF end < 0 THEN <<>>
       ELSE << SubSeq(rest, 1, end) >>
              \o extractHexTokens(SubSeq(rest, end + 2, Len(rest)))

\* cmap[g] = r
cmapSet(cmap, g, r) ==
    [x \in (DOMAIN cmap) \cup {g} |-> IF x = g THEN r ELSE cmap[x]]

\* The loop of parseBFChar over the pairs of tokens from index i (from 0).
RECURSIVE bfCharLoop(_, _, _)
bfCharLoop(tokens, i, cmap) ==
    IF i + 1 < Len(tokens)
    THEN bfCharLoop(tokens, i + 2,
                    cmapSet(cmap, decodeUint16(tokens[i + 1]),
                            decodeUint16(tokens[i + 2])))
    ELSE cmap

\* parseBFChar(section, cmap)
parseBFChar(section, cmap) == bfCharLoop(extractHexTokens(section), 0, cmap)

\* rune(dstStart + (g - lo)), in uint16 arithmetic.
rangeRune(dstStart, g, lo) == (dstStart + ((g - lo + Uint16) % Uint16)) % Uint16

kwBeginChar == <<"b", "e", "g", "i", "n", "b", "f", "c", "h", "a", "r">>
kwEndChar == <<"e", "n", "d", "b", "f", "c", "h", "a", "r">>
kwBeginRange == <<"b", "e", "g", "i", "n", "b", "f", "r", "a", "n", "g", "e">>
kwEndRange == <<"e", "n", "d", "b", "f", "r", "a", "n", "g", "e">>

\* The section between the first begin keyword in s and the end keyword that
\* follows it, and the rest of s after it; found is FALSE when either is
\* missing.
cmSection(s, begin, end) ==
    LET start == Index(s, begin)
        s1 == SubSeq(s, start + Len(begin) + 1, Len(s))
        e == Index(s1, end)
    IN IF start < 0 THEN [found |-> FALSE, section |-> <<>>, rest |-> s]
       ELSE IF e < 0 THEN [found |-> FALSE, section |-> <<>>, rest |-> s1]
       ELSE [found |-> TRUE, section |-> SubSeq(s1, 1, e),
             rest |-> SubSeq(s1, e + Len(end) + 1, Len(s1))]

\* The locals of ParseCMap(data) at its start.
cmStart(data) ==
    [pc |-> "bfchar", data |-> data, s |-> data, cmap |-> <<>>,
     tokens |-> <<>>, i |-> 0, lo |-> 0, hi |-> 0, dstStart |-> 0, g |-> 0,
     steps |-> 0]

\* The four-digit hex text of a glyph ID or code point.
HexChar(d) ==
    CASE d = 0 -> "0" [] d = 1 -> "1" [] d = 2 -> "2" [] d = 3 -> "3"
      [] d = 4 -> "4" [] d = 5 -> "5" [] d = 6 -> "6" [] d = 7 -> "7"
      [] d = 8 -> "8" [] d = 9 -> "9" [] d = 10 -> "A" [] d = 11 -> "B"
      [] d = 12 -> "C" [] d = 13 -> "D" [] d = 14 -> "E" [] d = 15 -> "F"

Hex4(n) ==
    << HexChar(n \div 4096), HexChar((n \div 256) % 16),
       HexChar((n \div 16) % 16), HexChar(n % 16) >>

\* <g> <u> and <lo> <hi> <start>
RenderEntry(e) ==
    Join([k \in 1..Len(e) |-> <<"<">> \o Hex4(e[k]) \o <<">">>], <<" ">>)

\* A block of the stream: its begin keyword, its entries and its end keyword.
RenderBlock(b) ==
    (IF b.kind = "bfchar" THEN kwBeginChar ELSE kwBeginRange)
      \o <<"\n">>
      \o Join([k \in 1..Len(b.entries) |-> RenderEntry(b.entries[k])], <<"\n">>)
      \o <<"\n">>
      \o (IF b.kind = "bfchar" THEN kwEndChar ELSE kwEndRange)

RenderCMap(bs) == Join([k \in 1..Len(bs) |-> RenderBlock(bs[k])], <<"\n">>)

\* The blocks of the streams: pairs, a second definition of glyph 3, ranges of
\* three, one and no glyphs, a range whose code points pass FFFF, the glyph
\* FFFF, and a range that ends at glyph FFFF.
CmBlocks ==
    { [kind |-> "bfchar", entries |-> << <<3, 32>> >>],
      [kind |-> "bfchar", entries |-> << <<3, 65>>, <<5, 66>> >>],
      [kind |-> "bfrange", entries |-> << <<36, 38, 65>> >>],
      [kind |-> "bfrange", entries |-> << <<16, 16, 48>>, <<18, 17, 80>> >>],
      [kind |-> "bfrange", entries |-> << <<0, 1, 65535>> >>],
      [kind |-> "bfchar", entries |-> << <<65535, 122>> >>],
      [kind |-> "bfrange", entries |-> << <<65534, 65535, 97>> >>] }

CmInputs == SeqsUpTo(CmBlocks, MaxBlocks)

CmInit == \E bs \in CmInputs : cm = cmStart(RenderCMap(bs))

\* One iteration of the loop over the bfchar sections; when no section is
\* left s is reset for the bfrange sections.
CmChar ==
    /\ cm.pc = "bfchar"
    /\ LET f == cmSection(cm.s, kwBeginChar, kwEndChar)
       IN cm' = IF f.found
                THEN [cm EXCEPT !.s = f.rest,
                                !.cmap = parseBFChar(f.section, cm.cmap)]
                ELSE [cm EXCEPT !.pc = "bfrange", !.s = cm.data]
    /\ UNCHANGED <<gl, ms, cs, mc, tj, pp, tk, ex, pf, cc, dh, fd>>

\* One iteration of the loop over the bfrange sections: parseBFRange is
\* called with the section.
CmRange ==
    /\ cm.pc = "bfrange"
    /\ cmSection(cm.s, kwBeginRange, kwEndRange).found
    /\ LET f == cmSection(cm.s, kwBeginRange, kwEndRange)
       IN cm' = [cm EXCEPT !.pc = "triple", !.s = f.rest,
                           !.tokens = extractHexTokens(f.section), !.i = 0]
    /\ UNCHANGED <<gl, ms, cs, mc, tj, pp, tk, ex, pf, cc, dh, fd>>

\* parseBFRange reads the next triple, or returns when none is left.
CmTriple ==
    /\ cm.pc = "triple"
    /\ cm' = IF cm.i + 2 < Len(cm.tokens)
             THEN [cm EXCEPT !.pc = "glyph",
                             !.lo = decodeUint16(cm.tokens[cm.i + 1]),
                             !.hi = decodeUint16(cm.tokens[cm.i + 2]),
                             !.dstStart = decodeUint16(cm.tokens[cm.i + 3]),
                             !.g = decodeUint16(cm.tokens[cm.i + 1]),
                             !.steps = 0]
             ELSE [cm EXCEPT !.pc = "bfrange"]
    /\ UNCHANGED <<gl, ms, cs, mc, tj, pp, tk, ex, pf, cc, dh, fd>>

\* One iteration of for g := lo; g <= hi; g++; the model follows at most
\* MaxRangeSteps iterations of one range.
CmGlyph ==
    /\ cm.pc = "glyph"
    /\ cm.g <= cm.hi
    /\ cm.steps < MaxRangeSteps
    /\ cm' = [cm EXCEPT !.cmap = cmapSet(@, cm.g, rangeRune(cm.dstStart, cm.g, cm.lo)),
                        !.g = (@ + 1) % Uint16,
                        !.steps = @ + 1]
    /\ UNCHANGED <<gl, ms, cs, mc, tj, pp, tk, ex, pf, cc, dh, fd>>

\* The loop over the glyphs of a range ends.
CmGlyphEnd ==
    /\ cm.pc = "glyph"
    /\ cm.g > cm.hi
    /\ cm' = [cm EXCEPT !.pc = "triple", !.i = @ + 3]
    /\ UNCHANGED <<gl, ms, cs, mc, tj, pp, tk, ex, pf, cc, dh, fd>>

\* return cmap
CmReturn ==
    /\ cm.pc = "bfrange"
    /\ ~cmSection(cm.s, kwBeginRange, kwEndRange).found
    /\ cm' = [cm EXCEPT !.pc = "done"]
    /\ UNCHANGED <<gl, ms, cs, mc, tj, pp, tk, ex, pf, cc, dh, fd>>

InitCMap ==
    /\ CmInit
    /\ gl = Idle /\ ms = Idle /\ cs = Idle /\ mc = Idle /\ tj = Idle /\ pp = Idle
    /\ tk = Idle /\ ex = Idle /\ pf = Idle /\ cc = Idle /\ dh = Idle /\ fd = Idle

NextCMap == CmChar \/ CmRange \/ CmTriple \/ CmGlyph \/ CmGlyphEnd \/ CmReturn

SpecCMap == InitCMap /\ [][NextCMap]_vars

(***************************************************************************)
(* Claims about ParseCMap.                                                 *)
(***************************************************************************)
\* The glyphs an entry of a block defines.
CmGlyphsOf(b, k) ==
    IF b.kind = "bfchar" THEN {b.entries[k][1]}
    ELSE b.entries[k][1]..b.entries[k][2]

\* The entries of the blocks, as pairs of a block index and an entry index.
CmEntries(bs) ==
    UNION { {<<b, k>> : k \in 1..Len(bs[b].entries)} : b \in 1..Len(bs) }

\* No glyph is defined twice in the blocks.
CmNoDouble(bs) ==
    \A e, f \in CmEntries(bs) :
        e # f => CmGlyphsOf(bs[e[1]], e[2]) \cap CmGlyphsOf(bs[f[1]], f[2]) = {}

\* The map the claim describes for the blocks.
CmClaimed(bs, cmap) ==
    /\ \A e \in CmEntries(bs) :
           LET b == bs[e[1]]
               t == b.entries[e[2]]
           IN \A g \in CmGlyphsOf(b, e[2]) :
                  /\ g \in DOMAIN cmap
                  /\ cmap[g] = IF b.kind = "bfchar" THEN t[2] ELSE t[3] + (g - t[1])
    /\ DOMAIN cmap = UNION {CmGlyphsOf(bs[e[1]], e[2]) : e \in CmEntries(bs)}

\* Every code point of every range of the blocks fits in 16 bits.
CmFits(bs) ==
    \A e \in CmEntries(bs) :
        LET t == bs[e[1]].entries[e[2]]
        IN bs[e[1]].kind = "bfrange" => t[3] + (t[2] - t[1]) < 65536

\* The text of every input.
CmRendered == [bs \in CmInputs |-> RenderCMap(bs)]

\* For streams whose ranges stay within 16-bit code points the map ParseCMap
\* returns is the one C18 describes.  (This part of C18 holds.)
C18_WithinSixteenBits ==
    cm.pc = "done" =>
        \A bs \in CmInputs :
            (cm.data = CmRendered[bs] /\ CmNoDouble(bs) /\ CmFits(bs))
                => CmClaimed(bs, cm.cmap)

\* C18: for a stream in which no glyph is defined twice, the map ParseCMap
\* returns maps g to u for every pair <g> <u> of a bfchar block and every glyph
\* g of lo..hi to start + (g - lo) for every triple <lo> <hi> <start> of a
\* bfrange block, and holds no other glyph.
C18_ParseCMapMaps ==
    cm.pc = "done" =>
        \A bs \in CmInputs :
            (cm.data = CmRendered[bs] /\ CmNoDouble(bs)) => CmClaimed(bs, cm.cmap)

\* <0000> <0001> <FFFF> has been parsed: glyph 1 is mapped to 0.
C18_Witness ==
    /\ cm.pc = "done"
    /\ cm.data = RenderCMap(<< [kind |-> "bfrange", entries |-> << <<0, 1, 65535>> >>] >>)
    /\ cm.cmap[0] = 65535
    /\ cm.cmap[1] = 0

\* A pair and a range of three glyphs have been parsed.
C18_WitnessMapped ==
    /\ cm.pc = "done"
    /\ cm.data = RenderCMap(<< [kind |-> "bfchar", entries |-> << <<3, 32>> >>],
                              [kind |-> "bfrange", entries |-> << <<36, 38, 65>> >>] >>)
    /\ DOMAIN cm.cmap = {3, 36, 37, 38}
    /\ cm.cmap[3] = 32
    /\ cm.cmap[38] = 67

(***************************************************************************)
(* DecodeHexString.  The returned string is held as its code points.       *)
(***************************************************************************)
\* buf.WriteRune(r): a rune that is no Unicode scalar value (a surrogate, a
\* negative value or one above 10FFFF) is written as U+FFFD.
writeRune(r) ==
    IF r < 0 \/ r > 1114111 \/ (r >= 55296 /\ r <= 57343) THEN 65533 ELSE r

\* A mutant that writes the zero rune of a failed map lookup.
dhWriteAlways(buf, cmap, gid) ==
    Append(buf, IF gid \in DOMAIN cmap THEN writeRune(cmap[gid]) ELSE 0)

\* if r, ok := cmap[gid]; ok { buf.WriteRune(r) }
dhWrite(buf, cmap, gid) ==
    IF gid \in DOMAIN cmap THEN Append(buf, writeRune(cmap[gid])) ELSE buf

\* The three strings.ReplaceAll calls: blanks, line feeds and carriage
\* returns are removed.
dhStrip(hexStr) == RemoveAll(RemoveAll(RemoveAll(hexStr, " "), "\n"), "\r")

\* The locals of DecodeHexString(hexStr, cmap) at its start.
dhStart(hexStr, cmap) ==
    [pc |-> "decode", hexStr |-> hexStr, cmap |-> cmap, b |-> <<>>, i |-> 0,
     buf |-> <<>>, out |-> <<>>]

\* The glyph IDs of the hex strings, and the texts written between them.
DhGlyphs == {3, 36, 48, 65535}
DhSeparators == {<<>>, <<" ">>, <<"\n">>}

\* A hex string of the glyph IDs ids.
RenderGlyphs(ids, sep) == Join([k \in 1..Len(ids) |-> Hex4(ids[k])], sep)

\* Hex strings that are not made of 2-byte glyph IDs: an odd number of
\* digits, a tab, a letter that is no hex digit, and three bytes.
DhMalformed ==
    { <<"0", "0", "3">>, <<"0", "0", "0", "3", "\t", "0", "0", "2", "4">>, <<"0", "0", "G", "3">>,
      <<"0", "0", "0", "3", "0", "0">> }

\* The maps: none, two code points, and a map that gives glyph 3 a surrogate
\* and glyph 65535 a code point.
DhMaps ==
    { <<>>,
      [g \in {3, 36} |-> IF g = 3 THEN 32 ELSE 65],
      [g \in {3, 65535} |-> IF g = 3 THEN 55357 ELSE 122] }

DhInit ==
    \E cmap \in DhMaps :
        \/ \E ids \in SeqsUpTo(DhGlyphs, MaxGlyphs), sep \in DhSeparators :
               dh = dhStart(RenderGlyphs(ids, sep), cmap)
        \/ \E h \in DhMalformed : dh = dhStart(h, cmap)

\* The whitespace is removed and the hex digits are decoded; on an error the
\* empty string is returned.
DhDecode ==
    /\ dh.pc = "decode"
    /\ LET d == hexDecode(dhStrip(dh.hexStr))
       IN dh' = IF d.ok THEN [dh EXCEPT !.pc = "loop", !.b = d.bytes]
                ELSE [dh EXCEPT !.pc = "done", !.out = <<>>]
    /\ UNCHANGED <<gl, ms, cs, mc, tj, pp, tk, ex, pf, cc, cm, fd>>

\* One iteration of the loop over the byte pairs.
DhIterate ==
    /\ dh.pc = "loop"
    /\ dh.i + 1 < Len(dh.b)
    /\ dh' = [dh EXCEPT !.i = @ + 2,
                        !.buf = dhWrite(@, dh.cmap,
                                        dh.b[dh.i + 1] * 256 + dh.b[dh.i + 2])]
    /\ UNCHANGED <<gl, ms, cs, mc, tj, pp, tk, ex, pf, cc, cm, fd>>

\* return buf.String()
DhReturn ==
    /\ dh.pc = "loop"
    /\ dh.i + 1 >= Len(dh.b)
    /\ dh' = [dh EXCEPT !.pc = "done", !.out = dh.buf]
    /\ UNCHANGED <<gl, ms, cs, mc, tj, pp, tk, ex, pf, cc, cm, fd>>

InitDecode ==
    /\ DhInit
    /\ gl = Idle /\ ms = Idle /\ cs = Idle /\ mc = Idle /\ tj = Idle /\ pp = Idle
    /\ tk = Idle /\ ex = Idle /\ pf = Idle /\ cc = Idle /\ cm = Idle /\ fd = Idle

NextDecode == DhDecode \/ DhIterate \/ DhReturn

SpecDecode == InitDecode /\ [][NextDecode]_vars

(***************************************************************************)
(* Claims about DecodeHexString.                                           *)
(***************************************************************************)
\* The IDs among ids that the map holds, in order.
RECURSIVE DhPresent(_, _)
DhPresent(ids, cmap) ==
    IF ids = <<>> THEN <<>>
    ELSE (IF Head(ids) \in DOMAIN cmap THEN <<Head(ids)>> ELSE <<>>)
           \o DhPresent(Tail(ids), cmap)

\* The hex string of the call is made of the glyph IDs ids.
DhMadeOf(ids) == \E sep \in DhSeparators : dh.hexStr = RenderGlyphs(ids, sep)

\* C19 as stated: for a hex string made of 2-byte glyph IDs the result holds
\* the map's code points of exactly the IDs present in the map, in input
\* order, and never more code points than the input holds IDs.
C19_DecodeAsStated ==
    dh.pc = "done" =>
        \A ids \in SeqsUpTo(DhGlyphs, MaxGlyphs) :
            DhMadeOf(ids) =>
                LET present == DhPresent(ids, dh.cmap)
                IN /\ dh.out = [k \in 1..Len(present) |-> dh.cmap[present[k]]]
                   /\ Len(dh.out) <= Len(ids)

\* C19, amended: the result holds one code point for each ID present in the
\* map, in input order: the map's code point, or U+FFFD when the map's value
\* is a surrogate (D800..DFFF) or lies outside 0..10FFFF; IDs absent from the
\* map are omitted, no error is raised, and the result never holds more code
\* points than the input holds IDs.
C19_DecodeHexString ==
    /\ dh.pc \in {"decode", "loop", "done"}
    /\ dh.pc = "done" =>
        \A ids \in SeqsUpTo(DhGlyphs, MaxGlyphs) :
            DhMadeOf(ids) =>
                LET present == DhPresent(ids, dh.cmap)
                    shown(r) == IF (r >= 55296 /\ r <= 57343) \/ r < 0 \/ r > 1114111
                                THEN 65533 ELSE r
                IN /\ dh.out = [k \in 1..Len(present) |-> shown(dh.cmap[present[k]])]
                   /\ Len(dh.out) <= Len(ids)

\* 0003 0024 0030 has been decoded with a map that holds 3 and 36 but not 48.
C19_Witness ==
    /\ dh.pc = "done"
    /\ dh.hexStr = RenderGlyphs(<<3, 36, 48>>, <<" ">>)
    /\ DOMAIN dh.cmap = {3, 36}
    /\ dh.out = <<32, 65>>

\* 0003FFFF has been decoded with a map that gives glyph 3 the surrogate
\* D83D: the result starts with U+FFFD.
C19_WitnessSurrogate ==
    /\ dh.pc = "done"
    /\ dh.hexStr = RenderGlyphs(<<3, 65535>>, <<>>)
    /\ 3 \in DOMAIN dh.cmap
    /\ dh.cmap[3] = 55357
    /\ dh.out = <<65533, 122>>

(***************************************************************************)
(* findDuplicates.  A parseResult is [date, failed, results]; a result is  *)
(* the [County, Municipality] of a MunicipalityStats.  The nested maps of  *)
(* groups are one function from <<county, stripped, name>> to the set of   *)
(* dates of that name.                                                     *)
(***************************************************************************)
\* The characters of the names and dates, in the order of their bytes.
Bytes == <<" ", "-", "0", "1", "2", "3", "4", "5", "6", "7", "8", "9", "A", "B", "C", "D", "E", "F", "G", "H", "I", "J", "K", "L", "M", "N", "O", "P", "Q", "R", "S", "T", "U", "V", "W", "X", "Y", "Z", "a", "b", "c", "d", "e", "f", "g", "h", "i", "j", "k", "l", "m", "n", "o", "p", "q", "r", "s", "t", "u", "v", "w", "x", "y", "z">>
byteIndex == [c \in {Bytes[k] : k \in 1..Len(Bytes)} |->
                 CHOOSE k \in 1..Len(Bytes) : Bytes[k] = c]
byteOf(c) == byteIndex[c]

\* The comparison of two Go strings with <.
StrLess(a, b) ==
    \E k \in 1..(Len(b)) :
        /\ \A m \in 1..(k - 1) : m <= Len(a) /\ a[m] = b[m]
        /\ IF k > Len(a) THEN TRUE ELSE byteOf(a[k]) < byteOf(b[k])

\* strings.ToUpper
upperOf == [c \in DOMAIN byteIndex |->
               IF byteOf(c) >= byteOf("a") /\ byteOf(c) <= byteOf("z")
               THEN Bytes[byteOf(c) - byteOf("a") + byteOf("A")] ELSE c]
ToUpper(s) == [k \in 1..Len(s) |-> upperOf[s[k]]]

\* strings.HasSuffix
HasSuffix(s, suffix) ==
    /\ Len(suffix) <= Len(s)
    /\ SubSeq(s, Len(s) - Len(suffix) + 1, Len(s)) = suffix

municipalSuffixes == <<<<"T", "O", "W", "N", "S", "H", "I", "P">>,
                       <<"T", "O", "W", "N">>,
                       <<"T", "W", "P">>,
                       <<"B", "O", "R", "O", "U", "G", "H">>,
                       <<"B", "O", "R", "O">>,
                       <<"C", "I", "T", "Y">>,
                       <<"V", "I", "L", "L", "A", "G", "E">>>>

RECURSIVE stripLoop(_, _)
stripLoop(upper, k) ==
    IF k > Len(municipalSuffixes) THEN upper
    ELSE LET suffix == municipalSuffixes[k]
         IN IF HasSuffix(upper, <<" ">> \o suffix)
            THEN SubSeq(upper, 1, Len(upper) - Len(suffix) - 1)
            ELSE stripLoop(upper, k + 1)

stripMunicipalSuffix(name) == stripLoop(TrimSpace(ToUpper(name)), 1)

\* sort.Strings of the keys of a map.
RECURSIVE sortedKeys(_)
sortedKeys(S) ==
    IF S = {} THEN <<>>
    ELSE LET least == CHOOSE x \in S : \A y \in S : ~StrLess(y, x)
         IN <<least>> \o sortedKeys(S \ {least})

\* A mutant that lets a failed file in.
fdSkipsDateless(r) == r.date = <<>>

\* if r.failed || r.date == "" { continue }
fdSkips(r) == r.failed \/ r.date = <<>>

\* groups[county][stripped][name].dates[r.date] = true
groupsAdd(groups, s, date) ==
    LET county == ToUpper(s.County)
        name == ToUpper(s.Municipality)
        key == <<county, stripMunicipalSuffix(name), name>>
    IN [g \in DOMAIN groups \cup {key} |->
           IF g = key
           THEN (IF key \in DOMAIN groups THEN groups[key] ELSE {}) \cup {date}
           ELSE groups[g]]

\* The loop over the results of one file.
RECURSIVE resultsLoop(_, _, _, _)
resultsLoop(groups, results, date, k) ==
    IF k > Len(results) THEN groups
    ELSE resultsLoop(groupsAdd(groups, results[k], date), results, date, k + 1)

\* The search for a date that both names have.
hasOverlap(datesA, datesB) == \E d \in datesA : d \in datesB

\* The candidate of names[i] and names[j]: the name with the later last date
\* is nameA.
candidateOf(county, nameI, nameJ, infoA, infoB) ==
    LET datesA == sortedKeys(infoA)
        datesB == sortedKeys(infoB)
        recentA == datesA[Len(datesA)]
        recentB == datesB[Len(datesB)]
    IN IF StrLess(recentA, recentB)
       THEN [county |-> county, nameA |-> nameJ, nameB |-> nameI,
             datesA |-> datesB, datesB |-> datesA]
       ELSE [county |-> county, nameA |-> nameI, nameB |-> nameJ,
             datesA |-> datesA, datesB |-> datesB]

\* The two loops over the sorted names of one group, from (i, j) onwards.
RECURSIVE pairsLoop(_, _, _, _, _, _)
pairsLoop(groups, g, names, i, j, candidates) ==
    IF i > Len(names) THEN candidates
    ELSE IF j > Len(names)
         THEN pairsLoop(groups, g, names, i + 1, i + 2, candidates)
         ELSE LET infoA == groups[<<g[1], g[2], names[i]>>]
                  infoB == groups[<<g[1], g[2], names[j]>>]
              IN pairsLoop(groups, g, names, i, j + 1,
                     IF hasOverlap(infoA, infoB) THEN candidates
                     ELSE Append(candidates,
                                 candidateOf(g[1], names[i], names[j],
                                             infoA, infoB)))

\* The names of the group g of a county and a stripped name.
nameMap(groups, g) == {k[3] : k \in {x \in DOMAIN groups : x[1] = g[1] /\ x[2] = g[2]}}

\* The less function of sort.Slice.
candLess(x, y) ==
    IF x.county # y.county THEN StrLess(x.county, y.county)
    ELSE StrLess(x.nameA, y.nameA)

\* The locals of findDuplicates(parsed) at its start.
fdStart(parsed) ==
    [pc |-> "files", parsed |-> parsed, i |-> 0, groups |-> <<>>,
     pending |-> {}, candidates |-> <<>>, out |-> <<>>]

\* The files of the inputs, in the order of the slice, and the results that
\* they may hold.
FdFiles == <<[date |-> <<"2", "0", "1", "0", "-", "0", "7">>, failed |-> FALSE],
             [date |-> <<"2", "0", "0", "5", "-", "0", "7">>, failed |-> FALSE],
             [date |-> <<"2", "0", "0", "5", "-", "1", "2">>, failed |-> FALSE],
             [date |-> <<"2", "0", "0", "5", "-", "1", "2">>, failed |-> FALSE],
             [date |-> <<>>, failed |-> FALSE],
             [date |-> <<"2", "0", "1", "0", "-", "0", "7">>, failed |-> TRUE]>>
FdStats == <<[County |-> <<"H", "U", "D", "S", "O", "N">>, Municipality |-> <<"G", "U", "T", "T", "E", "N", "B", "E", "R", "G", " ", "T", "O", "W", "N">>],
             [County |-> <<"H", "u", "d", "s", "o", "n">>, Municipality |-> <<"G", "u", "t", "t", "e", "n", "b", "e", "r", "g">>],
             [County |-> <<"H", "U", "D", "S", "O", "N">>, Municipality |-> <<"G", "U", "T", "T", "E", "N", "B", "E", "R", "G", " ", "T", "W", "P">>],
             [County |-> <<"B", "E", "R", "G", "E", "N">>, Municipality |-> <<"G", "U", "T", "T", "E", "N", "B", "E", "R", "G">>],
             [County |-> <<"H", "U", "D", "S", "O", "N">>, Municipality |-> <<"M", "O", "R", "R", "I", "S", "T", "O", "W", "N">>]>>

\* The slice made of the occurrences O, a set of <<file, result>>.
FdParsed(O) ==
    LET Ix(n) == [k \in 1..n |-> k]
        files == SelectSeq(Ix(Len(FdFiles)), LAMBDA f : \E o \in O : o[1] = f)
        stats(f) == SelectSeq(Ix(Len(FdStats)), LAMBDA s : <<f, s>> \in O)
    IN [k \in 1..Len(files) |->
           [date |-> FdFiles[files[k]].date, failed |-> FdFiles[files[k]].failed,
            results |-> [m \in 1..Len(stats(files[k])) |->
                            FdStats[stats(files[k])[m]]]]]

\* The occurrences are numbered file by file.
FdOccurrence(n) == <<((n - 1) \div Len(FdStats)) + 1, ((n - 1) % Len(FdStats)) + 1>>

FdInit ==
    \E os \in SeqsUpTo(1..(Len(FdFiles) * Len(FdStats)), MaxOccurrences) :
        /\ \A k \in 1..(Len(os) - 1) : os[k] < os[k + 1]
        /\ fd = fdStart(FdParsed({FdOccurrence(os[k]) : k \in 1..Len(os)}))

\* A failed file, or one without a date, is passed over.
FdSkip ==
    /\ fd.pc = "files"
    /\ fd.i < Len(fd.parsed)
    /\ fdSkips(fd.parsed[fd.i + 1])
    /\ fd' = [fd EXCEPT !.i = @ + 1]
    /\ UNCHANGED <<gl, ms, cs, mc, tj, pp, tk, ex, pf, cc, cm, dh>>

\* The results of a file are entered into groups.
FdAdd ==
    /\ fd.pc = "files"
    /\ fd.i < Len(fd.parsed)
    /\ ~fdSkips(fd.parsed[fd.i + 1])
    /\ LET r == fd.parsed[fd.i + 1]
       IN fd' = [fd EXCEPT !.i = @ + 1,
                           !.groups = resultsLoop(@, r.results, r.date, 1)]
    /\ UNCHANGED <<gl, ms, cs, mc, tj, pp, tk, ex, pf, cc, cm, dh>>

\* The first loop has ended; the groups wait to be visited.
FdFilesEnd ==
    /\ fd.pc = "files"
    /\ fd.i >= Len(fd.parsed)
    /\ fd' = [fd EXCEPT !.pc = "groups",
                        !.pending = {<<k[1], k[2]>> : k \in DOMAIN fd.groups}]
    /\ UNCHANGED <<gl, ms, cs, mc, tj, pp, tk, ex, pf, cc, cm, dh>>

\* A group of fewer than two names is passed over.  The order in which range
\* visits the keys of a map is not fixed.
FdGroupSkip ==
    /\ fd.pc = "groups"
    /\ \E g \in fd.pending :
           /\ Cardinality(nameMap(fd.groups, g)) < 2
           /\ fd' = [fd EXCEPT !.pending = @ \ {g}]
    /\ UNCHANGED <<gl, ms, cs, mc, tj, pp, tk, ex, pf, cc, cm, dh>>

\* The pairs of a group of two names or more.
FdGroupPairs ==
    /\ fd.pc = "groups"
    /\ \E g \in fd.pending :
           /\ Cardinality(nameMap(fd.groups, g)) >= 2
           /\ fd' = [fd EXCEPT !.pending = @ \ {g},
                               !.candidates =
                                   pairsLoop(fd.groups, g,
                                             sortedKeys(nameMap(fd.groups, g)),
                                             1, 2, @)]
    /\ UNCHANGED <<gl, ms, cs, mc, tj, pp, tk, ex, pf, cc, cm, dh>>

\* sort.Slice and the return: the candidates in an order that the less
\* function allows; sort.Slice is not stable.
FdReturn ==
    /\ fd.pc = "groups"
    /\ fd.pending = {}
    /\ LET n == Len(fd.candidates)
       IN \E p \in [1..n -> 1..n] :
              /\ \A x, y \in 1..n : x # y => p[x] # p[y]
              /\ \A x, y \in 1..n :
                     x < y => ~candLess(fd.candidates[p[y]], fd.candidates[p[x]])
              /\ fd' = [fd EXCEPT !.pc = "done",
                                  !.out = [k \in 1..n |-> fd.candidates[p[k]]]]
    /\ UNCHANGED <<gl, ms, cs, mc, tj, pp, tk, ex, pf, cc, cm, dh>>

InitDuplicates ==
    /\ FdInit
    /\ gl = Idle /\ ms = Idle /\ cs = Idle /\ mc = Idle /\ tj = Idle /\ pp = Idle
    /\ tk = Idle /\ ex = Idle /\ pf = Idle /\ cc = Idle /\ cm = Idle /\ dh = Idle

NextDuplicates ==
    FdSkip \/ FdAdd \/ FdFilesEnd \/ FdGroupSkip \/ FdGroupPairs \/ FdReturn

SpecDuplicates == InitDuplicates /\ [][NextDuplicates]_vars

(***************************************************************************)
(* Claims about findDuplicates                                             *)
(***************************************************************************)
\* The results of parsed, with the index of their file.
FdResults ==
    UNION { {[file |-> f, s |-> fd.parsed[f].results[m]] :
                m \in 1..Len(fd.parsed[f].results)} : f \in 1..Len(fd.parsed) }

\* The dates of the files, neither failed nor without a date, in which the
\* name occurs in the county, both compared in upper case.
FdDates(county, name) ==
    {fd.parsed[x.file].date :
        x \in {y \in FdResults : /\ ~fd.parsed[y.file].failed
                                 /\ fd.parsed[y.file].date # <<>>
                                 /\ ToUpper(y.s.County) = county
                                 /\ ToUpper(y.s.Municipality) = name}}

\* The month of a date YYYY-MM, counted from the year 0.
FdMonth(d) ==
    LET v(k) == byteOf(d[k]) - byteOf("0")
    IN (v(1) * 1000 + v(2) * 100 + v(3) * 10 + v(4)) * 12 + v(6) * 10 + v(7)

FdLatest(S) == CHOOSE d \in S : \A e \in S : FdMonth(e) <= FdMonth(d)

FdReported(county, a, b) ==
    \E k \in 1..Len(fd.out) :
        /\ fd.out[k].county = county
        /\ \/ fd.out[k].nameA = a /\ fd.out[k].nameB = b
           \/ fd.out[k].nameA = b /\ fd.out[k].nameB = a

\* C20: findDuplicates reports two names (in upper case) of a county (in
\* upper case) as a candidate exactly when both occur in that county in
\* files that neither failed nor lack a date, their suffix-stripped base
\* names are equal, the names differ, and the sets of the dates of those
\* files are disjoint; and in every candidate the last date of nameA is
\* later than the last date of nameB.
C20_FindDuplicates ==
    /\ fd.pc \in {"files", "groups", "done"}
    /\ fd.pc = "done" =>
        LET counties == {ToUpper(x.s.County) : x \in FdResults}
            names == {ToUpper(x.s.Municipality) : x \in FdResults}
            dates == [c \in counties, n \in names |-> FdDates(c, n)]
            base == [n \in names |-> stripMunicipalSuffix(n)]
        IN /\ \A k \in 1..Len(fd.out) :
                  /\ fd.out[k].county \in counties
                  /\ fd.out[k].nameA \in names
                  /\ fd.out[k].nameB \in names
                  /\ dates[fd.out[k].county, fd.out[k].nameA] # {}
                  /\ dates[fd.out[k].county, fd.out[k].nameB] # {}
                  /\ FdMonth(FdLatest(dates[fd.out[k].county, fd.out[k].nameA]))
                       > FdMonth(FdLatest(dates[fd.out[k].county, fd.out[k].nameB]))
           /\ \A county \in counties : \A a, b \in names :
                  FdReported(county, a, b) <=>
                      /\ dates[county, a] # {}
                      /\ dates[county, b] # {}
                      /\ base[a] = base[b]
                      /\ a # b
                      /\ dates[county, a] \cap dates[county, b] = {}

\* GUTTENBERG TOWN of 2005-07 and Guttenberg of 2010-07, both of Hudson
\* county, are the one candidate, Guttenberg being kept, while the
\* GUTTENBERG TWP of a failed file is left out.
C20_Witness ==
    /\ fd.pc = "done"
    /\ Len(fd.parsed) = 3
    /\ fd.parsed[3].failed
    /\ Len(fd.out) = 1
    /\ fd.out[1].county = <<"H", "U", "D", "S", "O", "N">>
    /\ fd.out[1].nameA = <<"G", "U", "T", "T", "E", "N", "B", "E", "R", "G">>
    /\ fd.out[1].nameB = <<"G", "U", "T", "T", "E", "N", "B", "E", "R", "G", " ", "T", "O", "W", "N">>

\* GUTTENBERG TOWN and GUTTENBERG TWP both occur in a file of 2005-12:
\* nothing is reported.
C20_WitnessOverlap ==
    /\ fd.pc = "done"
    /\ fd.out = <<>>
    /\ \E f \in 1..Len(fd.parsed) :
           /\ ~fdSkips(fd.parsed[f])
           /\ Len(fd.parsed[f].results) = 2
           /\ fd.parsed[f].results[1].Municipality = <<"G", "U", "T", "T", "E", "N", "B", "E", "R", "G", " ", "T", "O", "W", "N">>
           /\ fd.parsed[f].results[2].Municipality = <<"G", "U", "T", "T", "E", "N", "B", "E", "R", "G", " ", "T", "W", "P">>

(***************************************************************************)
(* Claims about the skip loop of ParsePage                                 *)
(***************************************************************************)
\* The lines of the page without the lines between the 4 header lines and
\* the first line that matches a section name.
PpWithoutNoise ==
    SubSeq(pp.lines, 1, 4) \o SubSeq(pp.lines, PpFirstSection + 1, Len(pp.lines))

\* C21: after the 4 header lines ParsePage passes over every line that
\* matches no section name, up to the first line that does, so the outcome
\* and the record are those of the page without these lines; between
\* sections a line that matches no section name makes ParsePage fail, and
\* where a row is expected the line at the cursor is read as the row,
\* whatever it is.
C21_SkipOnlyAfterHeader ==
    /\ [](pp.pc \in {"done", "failed"} /\ Len(pp.lines) >= 4
            => LET r == ParsePage(PpItems(PpWithoutNoise))
               IN /\ r.ok = (pp.pc = "done")
                  /\ r.stats = pp.stats)
    /\ [][/\ (pp.pc = "skip" /\ pp'.pc = "skip")
                => /\ matchSectionName(ppLine) = <<>>
                   /\ pp'.pos = pp.pos + 1
                   /\ pp'.stats = pp.stats
          /\ (pp.pc = "skip" /\ pp'.pc # "skip")
                => /\ pp.pos = PpFirstSection
                   /\ pp'.pos = pp.pos
                   /\ pp'.stats = pp.stats
          /\ (pp.pc = "section" /\ ~ppAtEnd)
                => /\ pp'.pos = pp.pos + 1
                   /\ matchSectionName(ppLine) = <<>> => pp'.pc = "failed"
          /\ (pp.pc = "row" /\ ~ppAtEnd)
                => /\ pp'.pos = pp.pos + 1
                   /\ pp'.pc # "failed"
                   /\ pp'.rows = Append(pp.rows, readRow(ppLine).row)]_vars

\* A page with two column-header lines before the Filings line has been
\* parsed: the record is that of the page without them.
C21_Witness ==
    /\ pp.pc = "done"
    /\ PpFirstSection = 6
    /\ PpLineAt(4) = lnNoise
    /\ PpLineAt(5) = lnNoise
    /\ PpLineAt(6) = << sFilings >>
    /\ Len(PpWithoutNoise) = 33
    /\ pp.stats.sections[1][1].Label = <<"l", "a", "b">>

\* A column-header line between the first and the second section: ParsePage
\* has failed at it.
C21_WitnessBetween ==
    /\ pp.pc = "failed"
    /\ pp.err = "section"
    /\ pp.sec = 2
    /\ PpLineAt(PpFirstSection + 4) = lnNoise
    /\ pp.pos = PpFirstSection + 5

\* A column-header line where the second row of Filings is expected: it has
\* been read as that row.
C21_WitnessRow ==
    /\ pp.pc \in {"row", "section", "done", "failed"}
    /\ pp.sec >= 2
    /\ PpLineAt(PpFirstSection + 2) = lnNoise
    /\ pp.stats.sections[1][2].Label = lnNoise[1]
    /\ pp.stats.sections[1][2].Indictables = lnNoise[2]

(***************************************************************************)
(* Claims about the loop of mergeCommaSplitNumbers                         *)
(***************************************************************************)
\* C22: mergeCommaSplitNumbers returns after finitely many steps for every
\* line and every target n: every iteration either shortens the line by one
\* item or is the last one.  When len(line) > n, the length of the result is
\* at least n and at most len(line), and the result is longer than n only
\* when no adjacent pair of it satisfies looksLikeCommaSplit.
C22_MergeTerminates ==
    /\ [](/\ mc.pc \in {"loop", "done"}
          /\ Len(mc.line) <= Len(mc.input)
          /\ mc.pc = "done" =>
               /\ mc.line = mergeCommaSplitNumbers(mc.input, mc.expectedLen)
               /\ Len(mc.input) > mc.expectedLen =>
                    /\ Len(mc.line) >= mc.expectedLen
                    /\ Len(mc.line) <= Len(mc.input)
                    /\ Len(mc.line) > mc.expectedLen =>
                         \A i \in 1..(Len(mc.line) - 1) :
                             ~looksLikeCommaSplit(mc.line[i], mc.line[i + 1]))
    /\ [][\/ mc'.pc = "loop" /\ Len(mc'.line) = Len(mc.line) - 1
          \/ mc'.pc = "done" /\ mc'.line = mc.line]_vars

\* The call on ["1","000","lab","lab"] with target 2 has returned a line of
\* 3 items: one pair was merged and no pair is left.
C22_Witness ==
    /\ mc.pc = "done"
    /\ mc.input = << <<"1">>, <<"0", "0", "0">>, <<"l", "a", "b">>, <<"l", "a", "b">> >>
    /\ mc.expectedLen = 2
    /\ mc.line = << <<"1", ",", "0", "0", "0">>, <<"l", "a", "b">>, <<"l", "a", "b">> >>

\* The call on ["1","000","345"] with the target -1 has returned one item.
C22_WitnessNegative ==
    /\ mc.pc = "done"
    /\ mc.input = << <<"1">>, <<"0", "0", "0">>, <<"3", "4", "5">> >>
    /\ mc.expectedLen = -1
    /\ Len(mc.line) = 1

(***************************************************************************)
(* Claims about the empty fragments of ExtractTextItems                    *)
(***************************************************************************)
\* The fragments the step from ex to ex' has appended.
ExAppended == SubSeq(ex'.items, Len(ex.items) + 1, Len(ex'.items))

\* The step from ex to ex' has appended an empty fragment.
ExAppendsEmpty == \E k \in 1..Len(ExAppended) : ExAppended[k] = <<>>

\* C23: every empty fragment of the output is appended by a TD or Td whose
\* ty is a number other than zero, or by a Tm; no Tj and no TJ appends an
\* empty fragment, whatever its operands are, an empty string included.
C23_EmptyIsSentinel ==
    [][ /\ ex'.pc = "loop" => Len(ex'.items) >= Len(ex.items)
        /\ (ex.pc = "loop" /\ ex'.pc = "loop" /\ ExAppendsEmpty)
              => \/ ExActs({opTm})
                 \/ /\ ExActs({opTD, opTd})
                    /\ Len(ex.stack) >= 2
                    /\ ExNonZero(ex.stack[Len(ex.stack)].value)
        /\ ExActs({opTj, opTJ}) => ~ExAppendsEmpty ]_vars

\* The part of C23 that holds: a TJ appends no empty fragment, and a Tj
\* appends one only when its operand is the empty string and |Tc*1000| is
\* at most 500.
C23_ArrayShowsNoEmpty ==
    [][ /\ ExActs({opTJ}) => ~ExAppendsEmpty
        /\ (ExActs({opTj}) /\ ExAppendsEmpty)
              => /\ ex.stack[Len(ex.stack)] = TokString(<<>>)
                 /\ ~(Abs(ex.tc * 1000) > 500 * Scale)
                 /\ ExAppended = << <<>> >> ]_vars

\* () Tj has been read: the output is one empty fragment, and no TD, Td or
\* Tm stands in the stream.
C23_WitnessEmptyShow ==
    /\ ex.pc = "done"
    /\ ex.stream = pcShowEmpty
    /\ ex.items = << <<>> >>

(***************************************************************************)
(* Claims about the fragments at which groupIntoLines ends a line          *)
(***************************************************************************)
\* The step from gl to gl' is the loop iteration on the fragment gl.items[gl.i].
GlActs == gl.pc = "loop" /\ gl.i <= Len(gl.items) /\ gl'.i = gl.i + 1

\* C24: groupIntoLines ends the current line only at a fragment that is the
\* empty string in its input; a fragment that is not empty in the input and
\* is empty after trimming is dropped and the current line goes on.
C24_LineEndsAtEmptyOnly ==
    [][ GlActs =>
          /\ gl'.lines # gl.lines => gl.items[gl.i] = <<>>
          /\ (gl.items[gl.i] # <<>> /\ GlTrimmed(gl.i) = <<>>)
                => gl'.lines = gl.lines /\ gl'.current = gl.current ]_vars

\* What holds instead: the current line ends at every fragment that is empty
\* after trimming, and only there.
C24_LineEndsAtTrimmedEmpty ==
    [][ GlActs =>
          /\ gl'.lines # gl.lines => GlTrimmed(gl.i) = <<>>
          /\ (GlTrimmed(gl.i) = <<>> /\ gl.current # <<>>)
                => gl'.lines = Append(gl.lines, gl.current) /\ gl'.current = <<>> ]_vars

\* "A", " ", "A" has been grouped into two lines.
C24_WitnessBlank ==
    /\ gl.pc = "done"
    /\ gl.items = << <<"A">>, <<" ">>, <<"A">> >>
    /\ gl.lines = << << <<"A">> >>, << <<"A">> >> >>

(***************************************************************************)
(* Claims about arrays written inside an array                             *)
(***************************************************************************)
\* [(a)[(b)](c)](d)
TkNestedStrings == <<"[", "(", "a", ")", "[", "(", "b", ")", "]", "(", "c", ")", "]", "(", "d", ")">>

\* The token x is a child of the array token t, or of an array among its
\* children.
RECURSIVE TkHolds(_, _)
TkHolds(t, x) ==
    /\ t.kind = "tokArray"
    /\ \E k \in 1..Len(t.children) :
           t.children[k] = x \/ TkHolds(t.children[k], x)

\* C25: an array written inside an array is read as part of the outer
\* array: the outer array token extends to the ] that matches its own [, so
\* [(a)[(b)](c)](d) gives an array token that holds the strings a and c,
\* followed by the string d, and c is no top-level token.
C25_NestedArray ==
    (tk.pc = "done" /\ tk.s = TkNestedStrings) =>
        /\ Len(tk.tokens) = 2
        /\ TkHolds(tk.tokens[1], TokString(<<"a">>))
        /\ TkHolds(tk.tokens[1], TokString(<<"c">>))
        /\ tk.tokens[2] = TokString(<<"d">>)
        /\ \A k \in 1..Len(tk.tokens) : tk.tokens[k] # TokString(<<"c">>)

\* What holds instead: readArray returns at the first ] it meets, and no
\* array token has an array among its children.
C25_ArrayEndsAtFirstBracket ==
    /\ [](\A k \in 1..Len(tk.tokens) :
             tk.tokens[k].kind = "tokArray" =>
                 \A c \in 1..Len(tk.tokens[k].children) :
                     tk.tokens[k].children[c].kind \in {"tokString", "tokNumber"})
    /\ [][(tk.pc = "array" /\ tk.s[tk.i + 1] = "]")
             => /\ tk'.pc = "main"
                /\ tk'.i = tk.i + 1
                /\ tk'.tokens = Append(tk.tokens, TokArray(tk.children))]_vars

\* [(a)[(b)](c)](d) has been read: the array token holds a and b and ends at
\* the inner ], and c is a top-level token.
C25_WitnessNested ==
    /\ tk.pc = "done"
    /\ tk.s = TkNestedStrings
    /\ tk.tokens[1] = TokArray(<< TokString(<<"a">>), TokString(<<"b">>) >>)
    /\ tk.tokens[2] = TokString(<<"c">>)
    /\ tk.tokens[3] = TokString(<<"d">>)
    /\ Len(tk.tokens) = 3

(***************************************************************************)
(* Claims about Tc, Tm and the operand stack of ExtractTextItems           *)
(***************************************************************************)
\* The step from ex to ex' is a loop iteration.
ExIterates == ex.pc = "loop" /\ ex.i < Len(ex.tokens) /\ ex'.i = ex.i + 1

\* What a loop iteration does apart from Tc: an operator other than Tj, TJ,
\* TD, Td and Tm appends nothing, Tm appends one sentinel, every operator
\* empties the operand stack, and a token that is no operator is pushed and
\* changes nothing else.
ExFrame ==
    LET t == ex.tokens[ex.i + 1]
    IN IF t.kind = "tokOperator"
       THEN /\ ex'.stack = <<>>
            /\ t.value \notin {opTj, opTJ, opTD, opTd, opTm} => ex'.items = ex.items
            /\ t.value = opTm => ex'.items = Append(ex.items, <<>>)
            /\ t.value # opTc => ex'.tc = ex.tc
       ELSE /\ ex'.stack = Append(ex.stack, t)
            /\ ex'.items = ex.items
            /\ ex'.tc = ex.tc

\* C26: Tc changes only at a Tc operator with a numeric operand and keeps
\* its value across every other operator; operators other than Tj, TJ, TD,
\* Td and Tm append no fragment, Tm appends exactly one sentinel whatever its
\* operands are, and every operator empties the operand stack.
C26_TcFrame ==
    [][ ExIterates =>
          /\ ExFrame
          /\ ex'.tc # ex.tc =>
                /\ ex.tokens[ex.i + 1] = TokOperator(opTc)
                /\ ex.stack # <<>>
                /\ ex.stack[Len(ex.stack)].kind = "tokNumber" ]_vars

\* What holds instead: Tc changes only at a Tc operator whose last operand,
\* a number or a string, has a text that parses as a number.
C26_TcFrameParsed ==
    [][ ExIterates =>
          /\ ExFrame
          /\ ex'.tc # ex.tc =>
                /\ ex.tokens[ex.i + 1] = TokOperator(opTc)
                /\ ex.stack # <<>>
                /\ ex.stack[Len(ex.stack)].kind \in {"tokNumber", "tokString"}
                /\ parseFloat(ex.stack[Len(ex.stack)].value).ok
                /\ ex'.tc = parseFloat(ex.stack[Len(ex.stack)].value).val ]_vars

\* (0.6) Tc (ab) Tj has been read: the string operand has set Tc, and ab is
\* shown as two fragments.
C26_WitnessString ==
    /\ ex.pc = "done"
    /\ ex.stream = Join(<<pcTcString, pcShow>>, <<" ">>)
    /\ ex.tc * 1000 = 600 * Scale
    /\ ex.items = << <<"a">>, <<"b">> >>

(***************************************************************************)
(* Claims about the number of rows of a record                             *)
(***************************************************************************)
\* The number of rows in the first s sections of the record.
RECURSIVE PpRowCount(_)
PpRowCount(s) ==
    IF s = 0 THEN 0 ELSE Len(pp.stats.sections[s]) + PpRowCount(s - 1)

\* The number of lines read as rows: the lines from the first section line
\* to the cursor, without the name lines of the sections.
PpRowsRead == pp.pos - PpFirstSection - Len(pp.stats.sections)

\* Every row of the record has the 10 fields of a RowData.
PpTenFields ==
    \A s \in 1..Len(pp.stats.sections) : \A r \in 1..Len(pp.stats.sections[s]) :
        Len(PpFields(pp.stats.sections[s][r])) = 10

RECURSIVE TjText(_)
TjText(children) ==
    IF children = <<>> THEN <<>>
    ELSE (IF Head(children).kind = "tokString" THEN Head(children).value ELSE <<>>)
         \o TjText(Tail(children))

\* C28: for every array and every Tc, the fragments returned by
\* processTJArray are all non-empty and their concatenation is the
\* concatenation of the string children in order, whatever the numeric
\* children are.
C28_ConcatenationKept ==
    tj.pc = "done" =>
        /\ \A k \in 1..Len(tj.items) : tj.items[k] # <<>>
        /\ Flatten(tj.items) = TjText(tj.children)

\* What holds instead: the fragments are non-empty and their concatenation
\* is the concatenation of the string children with every byte that starts
\* no valid UTF-8 sequence replaced by U+FFFD.
C28_ConcatenationOfRunes ==
    tj.pc = "done" =>
        /\ \A k \in 1..Len(tj.items) : tj.items[k] # <<>>
        /\ Flatten(tj.items)
             = [k \in 1..Len(TjText(tj.children)) |->
                  IF TjText(tj.children)[k] = "0xE9" THEN "U+FFFD"
                  ELSE TjText(tj.children)[k]]

\* [(8<E9>)] has been read: the one fragment is 8 followed by U+FFFD.
C28_WitnessReplaced ==
    /\ tj.pc = "done"
    /\ tj.children = << TokString(<<"8", "0xE9">>) >>
    /\ tj.items = << <<"8", "U+FFFD">> >>

\* [(23)1000(8)(23)] has been read with Tc*1000 = 1000: five characters in
\* four fragments, in their order.
C28_WitnessKept ==
    /\ tj.pc = "done"
    /\ tj.children = << TokString(<<"2", "3">>), TokNumber(<<"1", "0", "0", "0">>),
                        TokString(<<"8">>), TokString(<<"2", "3">>) >>
    /\ tj.tcThousandths = 1000 * Scale
    /\ Flatten(tj.items) = <<"2", "3", "8", "2", "3">>
    /\ Len(tj.items) = 4

(***************************************************************************)
(* Claims about the end of the loop of parseBFRange                        *)
(***************************************************************************)
\* The step from cm to cm' is an iteration of the loop over the glyph IDs of
\* a range.
CmIterates == cm.pc = "glyph" /\ cm'.pc = "glyph" /\ cm'.steps = cm.steps + 1

\* C29: ParseCMap returns for every stream, also when a range ends at the
\* glyph ID FFFF: every iteration of the loop over lo..hi moves g up by one,
\* so the loop runs at most hi - lo + 1 times, and after hi has been mapped
\* the loop ends.
C29_RangeLoopEnds ==
    /\ [](cm.pc = "glyph" =>
             /\ cm.g = cm.lo + cm.steps
             /\ cm.steps <= IF cm.hi >= cm.lo THEN cm.hi - cm.lo + 1 ELSE 0)
    /\ [][CmIterates =>
             /\ cm'.g = cm.g + 1
             /\ cm.g = cm.hi => cm'.g > cm'.hi]_vars

\* What holds instead: the loop ends after hi has been mapped when hi is
\* below FFFF; with hi = FFFF the increment wraps g to 0 and g <= hi stays
\* true.
C29_RangeLoopWraps ==
    /\ [](cm.pc = "glyph" => cm.g \in 0..(Uint16 - 1) /\ cm.hi \in 0..(Uint16 - 1))
    /\ [][CmIterates =>
             /\ cm.hi < Uint16 - 1 =>
                   /\ cm'.g = cm.g + 1
                   /\ cm.g = cm.hi => cm'.g > cm'.hi
             /\ (cm.hi = Uint16 - 1 /\ cm.g = cm.hi) => cm'.g = 0]_vars

\* The range <FFFE> <FFFF> <0061>: FFFE and FFFF have been mapped and the
\* loop goes on at glyph 0.
C29_WitnessWrap ==
    /\ cm.pc = "glyph"
    /\ cm.lo = 65534
    /\ cm.hi = 65535
    /\ cm.steps = 3
    /\ cm.g = 1
    /\ 65535 \in DOMAIN cm.cmap
    /\ 0 \in DOMAIN cm.cmap

(***************************************************************************)
(* Claims about the pages parsePDFFile skips                               *)
(***************************************************************************)
\* C30: every fragment sequence that ParsePage parses successfully is a
\* data page for ContainsFilings, so parsePDFFile passes every page that
\* ParsePage would accept to it; this includes a page whose Filings label
\* is split in the fragments "F" and "ilings" or has whitespace around it.
C30_NoAcceptedPageSkipped ==
    /\ [](\A page \in PfPages :
             pageParse[page].ok => ContainsFilings(pageItems[page]))
    /\ [][(pf.pc = "loop" /\ pf.i < Len(pf.pages)
             /\ pageParse[pf.pages[pf.i + 1]].ok)
            => pf'.pc = "parse" /\ pf'.i = pf.i]_vars

\* What holds instead: a page that ParsePage accepts is passed to it exactly
\* when one of its fragments is "Filings" as it stands.
C30_AcceptedPageNeedsLiteral ==
    [][(pf.pc = "loop" /\ pf.i < Len(pf.pages)
          /\ pageParse[pf.pages[pf.i + 1]].ok)
         => IF PfHasLiteral(PfItemsAt)
            THEN pf'.pc = "parse" /\ pf'.i = pf.i
            ELSE pf' = [pf EXCEPT !.i = @ + 1]]_vars

\* A file of one page whose Filings label is "F", "ilings": ParsePage
\* accepts the page, and parsePDFFile has returned no record and no error.
C30_WitnessSplit ==
    /\ pf.pc = "done"
    /\ pf.pages = <<"pageSplit">>
    /\ pageParse["pageSplit"].ok
    /\ pageParse["pageSplit"].stats = pageParse["pageA"].stats
    /\ pf.results = <<>>
    /\ pf.errors = <<>>

====
